---- MODULE Spec2Model ----
(***************************************************************************)
(* The tracker of src/db.go and src/cmd/tracker/main.go, in four           *)
(* specifications over one set of variables:                               *)
(*                                                                         *)
(* Spec       the event ingestion batcher (Events.Add, Events.Run,         *)
(*            Events.flushQueue, Events.Insert, Events.WaitFlush) driven   *)
(*            by main and the /track handlers.  Goroutines: main, the      *)
(*            worker started with `go events.Run(eventsCtx)`, and one HTTP *)
(*            handler goroutine per tracking request.  An event is         *)
(*            identified by the number of the request that carries it.     *)
(* QuerySpec  Events.GetStats and Events.GenQuery, over every metric       *)
(*            request of a bounded set.                                    *)
(* StampSpec  the row loop of Events.Insert with TimeToInt (src/utils.go), *)
(*            over every calendar date of the years tried.                 *)
(* TrackSpec  track(), one request from its decoding to its response.      *)
(*                                                                         *)
(* Each specification leaves the variables of the others as they are.      *)
(***************************************************************************)
EXTENDS Integers, Sequences, FiniteSets, Bags

(* Number of tracking requests the HTTP server receives in one run. *)
NumRequests == 3

(* maxBatchSize := 50 in Events.Run (src/db.go:163), scaled down. *)
maxBatchSize == 2

(* Capacity of the input queue, make(chan qdata, 100) (src/db.go:161), scaled down. *)
chanCap == 1

Requests == 1..NumRequests

VARIABLES
    mainPc,     \* position of main(): start, serving, wait, returned, exited;
                \* fatal: the process was ended by log.Fatal
    runPc,      \* position of Events.Run: notStarted, spawned, init, select, flush, insert, done,
                \* returned; drainTimer: blocked in <-timer.C after timer.Stop()
    cancelled,  \* eventsCtx has been cancelled (eventsCancel() was called)
    wg,         \* counter of e.wg
    chMade,     \* e.ch has been assigned by Run (it is nil before)
    chClosed,   \* close(e.ch) has been executed
    ch,         \* the values buffered in e.ch, oldest first
    q,          \* e.q, the buffer
    tmp,        \* flushQueue's tmp, the batch of the Insert call in progress
    trigger,    \* which branch of Run asked for the flush in progress: size, timer, final
    timer,      \* the idle timer: none (not created), active, fired (a value waits in
                \* timer.C), idle (the value was received, Reset has not run yet)
    nreq,       \* number of requests that have arrived
    pc,         \* per request: none, handler, handlerCtxDone (its context is done),
                \* select (Add is blocked), nil, err, panic (how Add ended)
    pch,        \* per request: the value of e.ch that Add's select evaluated: "nil" or "ch"
    batches,    \* history: every call of Insert, in call order
    beforeCancel,  \* history: the events whose Add had returned nil when eventsCancel() ran
    everFired,     \* history: the idle timer has fired at least once
    received,      \* history: the events Run took out of e.ch, in the order it took them
    statsCalls,    \* history: the calls e.DB.Query(queryCtx, qry, ...) made by GetStats
    now,           \* the local time that time.Now() returns: year, month, day, minute
    batchRows,     \* the batch of one Insert call: per row, the time at which Add took it
    appended,      \* the rows that Insert has appended to the store's batch so far
    insPc,         \* position of that Insert call: collect (not called yet), insert, sent, fatal
    ticks,         \* number of times the clock was advanced
    trackReq,      \* the /track request followed through track(): what its body, the IP
                   \* lookup and the geo lookup yield
    trackPc,       \* position of track() for it: decode, enrich, add, done, panic
    trackStatus,   \* the HTTP status written, 0 while none is
    trackAdd,      \* the call of events.Add made for it: its arguments and its result
    statsReq,      \* the /stats request followed through stats(): its X-API-KEY header, the
                   \* configured key, its body and the MetricData the body decodes to
    statsPc,       \* position of stats() for it: auth, decode, query, done
    statsStatus,   \* the HTTP status written, 0 while none is
    statsResult,   \* what GetStats returned for it: the outcome at the store, the rows, the error
    mu,            \* e.lock as the statements of Run and flushQueue see it: unlocked, or Run
                   \* (held by the goroutine of Run)
    lkPc,          \* the statement Run is at, one statement of Run / flushQueue per step
    lkMade,        \* e.ch has been assigned
    lkClosed,      \* close(e.ch) has been executed
    lkDone,        \* the context of Run is done
    lkCh,          \* the values buffered in e.ch
    lkData,        \* the local `data` of Run: the value just received, 0 when none
    lkQ,           \* e.q
    lkSize,        \* the local currentSize of Run
    lkTmp,         \* the local tmp of flushQueue
    lkTrigger,     \* which branch called flushQueue: size, timer, final
    lkSent,        \* number of Add calls that have returned
    events,        \* the rows of the table `events` of the store, a bag
    geoArgs,       \* the geo argument of every Add call that returned nil, in call order:
                   \* a *GeoInfo, nil or not
    geoCh,         \* the geo field of the qdata that those calls put in e.ch
    geoRows,       \* the country and region that Insert appended for them
    geoPc,         \* Insert for them: collect (not called), done, panic (nil dereference)
    sqlResult      \* what the store answered to the last query of GetStats: the MetricData,
                   \* the status (none, ok, error) and the rows in the order returned

vars == <<mainPc, runPc, cancelled, wg, chMade, chClosed, ch, q, tmp, trigger, timer,
          nreq, pc, pch, batches, beforeCancel, everFired, received, statsCalls,
          now, batchRows, appended, insPc, ticks,
          trackReq, trackPc, trackStatus, trackAdd,
          statsReq, statsPc, statsStatus, statsResult,
          mu, lkPc, lkMade, lkClosed, lkDone, lkCh, lkData, lkQ, lkSize, lkTmp, lkTrigger,
          lkSent, events, geoArgs, geoCh, geoRows, geoPc, sqlResult>>

mainVars == <<mainPc, cancelled, beforeCancel>>
workerVars == <<runPc, wg, chMade, chClosed, q, tmp, trigger, timer, batches, everFired, received>>
requestVars == <<nreq, pc, pch>>
batcherVars == <<mainVars, workerVars, requestVars, ch>>
queryVars == <<statsCalls>>
stampVars == <<now, batchRows, appended, insPc, ticks>>
trackVars == <<trackReq, trackPc, trackStatus, trackAdd>>
statsVars == <<statsReq, statsPc, statsStatus, statsResult>>
lockVars == <<mu, lkPc, lkMade, lkClosed, lkDone, lkCh, lkData, lkQ, lkSize, lkTmp,
              lkTrigger, lkSent>>
sqlVars == <<events, sqlResult>>
geoVars == <<geoArgs, geoCh, geoRows, geoPc>>
extraVars == <<statsVars, lockVars, sqlVars, geoVars>>
apiVars == <<queryVars, stampVars, trackVars, extraVars>>

Range(s) == {s[i] : i \in 1..Len(s)}

(* First year of the calendar dates tried, and the number of years tried. *)
FirstYear == 2024
NumYears == 1

(* The minutes of the hour tried: with one digit and with two. *)
MinuteSamples == {4, 10}

IsLeap(y) == (y % 4 = 0 /\ y % 100 # 0) \/ y % 400 = 0

DaysIn(y, m) ==
    IF m = 2 THEN (IF IsLeap(y) THEN 29 ELSE 28)
    ELSE IF m \in {4, 6, 9, 11} THEN 30
    ELSE 31

(* The values of time.Now(): every calendar date of the years tried, at the
   minutes tried.  Hour and second play no part in what follows. *)
Instants ==
    {t \in [year : FirstYear..(FirstYear + NumYears - 1), month : 1..12,
            day : 1..31, minute : MinuteSamples] :
        t.day <= DaysIn(t.year, t.month)}

(* The bodies of /track requests, by what json.NewDecoder(r.Body).Decode makes of
   them: a JSON object that fits Tracking; a text that is not JSON; JSON with a
   value of the wrong type for its field; no bytes at all; a JSON text cut off
   before its end; a body whose read fails on the connection. *)
Bodies == {"valid", "notJSON", "wrongType", "empty", "truncated", "readFails"}

(* What a /track request carries and what the lookups made for it yield. *)
TrackRequests ==
    [body : Bodies,
     ip : {"addr", "nil"},
     ipErr : BOOLEAN,
     geo : {"info", "error"},
     referrer : {"", "url", "notURL"},
     identity : {"", "given"}]

(* No call of events.Add has been made. *)
NoAdd == [result |-> "notCalled", identity |-> "", referrerHost |-> "", geo |-> "nil"]

(* const ( QueryPageViews QueryType = iota ... QueryCountry ) *)
QueryPageViews == 0
QueryPageViewList == 1
QueryUniqueVisitors == 2
QueryReferrerHost == 3
QueryReferrer == 4
QueryBrowsers == 5
QueryOSes == 6
QueryCountry == 7

(* The eight declared values of QueryType. *)
QueryTypes == QueryPageViews..QueryCountry

(* MetricData as the /stats handler decodes it from the request body: What is an
   int, so values outside the declared ones decode as well. *)
MetricRequests ==
    [what : (QueryPageViews - 1)..(QueryCountry + 1),
     siteID : {"site-a", "site-b"},
     start : {20240101, 20240115},
     end : {20240131, 20241231},
     extra : {"", "news.ycombinator.com"}]

(* The values of the X-API-KEY header tried, and of the configured APIKey (an
   unset key is the empty string, as is an absent header). *)
Keys == {"secret", "guess", ""}

(* The MetricData values that the body of a /stats request decodes to. *)
StatsData ==
    {data \in MetricRequests :
        /\ data.siteID = "site-a"
        /\ data.start = 20240101
        /\ data.end = 20240131
        /\ data.what \in {QueryPageViews, QueryReferrer}}

(* What a /stats request carries, with the key the server is configured with. *)
StatsRequests == [key : Keys, apiKey : Keys \ {"guess"}, body : Bodies, data : StatsData]

(* GetStats has not been called. *)
NoStats == [outcome |-> "notCalled", scanned |-> 0, rows |-> 0, err |-> "nil"]

(* The state before any component has run, with the clock at t, the /track
   request treq and the /stats request sreq received. *)
InitFor(t, treq, sreq) ==
    /\ mainPc = "start"
    /\ runPc = "notStarted"
    /\ cancelled = FALSE
    /\ wg = 0
    /\ chMade = FALSE
    /\ chClosed = FALSE
    /\ ch = <<>>
    /\ q = <<>>
    /\ tmp = <<>>
    /\ trigger = "none"
    /\ timer = "none"
    /\ nreq = 0
    /\ pc = [r \in Requests |-> "none"]
    /\ pch = [r \in Requests |-> "nil"]
    /\ batches = <<>>
    /\ beforeCancel = {}
    /\ everFired = FALSE
    /\ received = <<>>
    /\ statsCalls = {}
    /\ now = t
    /\ batchRows = <<>>
    /\ appended = <<>>
    /\ insPc = "collect"
    /\ ticks = 0
    /\ trackReq = treq
    /\ trackPc = "decode"
    /\ trackStatus = 0
    /\ trackAdd = NoAdd
    /\ statsReq = sreq
    /\ statsPc = "auth"
    /\ statsStatus = 0
    /\ statsResult = NoStats
    /\ mu = "unlocked"
    /\ lkPc = "make"
    /\ lkMade = FALSE
    /\ lkClosed = FALSE
    /\ lkDone = FALSE
    /\ lkCh = <<>>
    /\ lkData = 0
    /\ lkQ = <<>>
    /\ lkSize = 0
    /\ lkTmp = <<>>
    /\ lkTrigger = "none"
    /\ lkSent = 0
    /\ events = EmptyBag
    /\ geoArgs = <<>>
    /\ geoCh = <<>>
    /\ geoRows = <<>>
    /\ geoPc = "collect"
    /\ sqlResult = [data |-> sreq.data, status |-> "none", rows |-> <<>>]

(* The first instant tried. *)
Epoch == [year |-> FirstYear, month |-> 1, day |-> 1, minute |-> 4]

(* A well-formed /track request for which every lookup succeeds. *)
PlainRequest ==
    [body |-> "valid", ip |-> "addr", ipErr |-> FALSE, geo |-> "info",
     referrer |-> "url", identity |-> "given"]

(* A /stats request with the configured key and a well-formed body. *)
PlainStatsRequest ==
    [key |-> "secret", apiKey |-> "secret", body |-> "valid",
     data |-> [what |-> QueryPageViews, siteID |-> "site-a", start |-> 20240101,
               end |-> 20240131, extra |-> ""]]

(* The state before any component has run, with the clock at t and the /track
   request treq received. *)
InitWith(t, treq) == InitFor(t, treq, PlainStatsRequest)

(* The batcher does not read the clock except in Insert (see InsertFatal). *)
Init == InitWith(Epoch, PlainRequest)

(* The process is alive until main returns or log.Fatal ends it. *)
Alive == mainPc \notin {"exited", "fatal"}

(***************************************************************************)
(* main() of src/cmd/tracker/main.go                                       *)
(***************************************************************************)

(* go events.Run(eventsCtx): the goroutine exists, none of its statements has run. *)
GoRun ==
    /\ mainPc = "start"
    /\ mainPc' = "serving"
    /\ runPc' = "spawned"
    /\ UNCHANGED <<cancelled, beforeCancel, wg, chMade, chClosed, ch, q, tmp, trigger,
                   timer, batches, everFired, received>>
    /\ UNCHANGED requestVars
    /\ UNCHANGED apiVars

(* <-stopChan, server.Shutdown(shutdownCtx), eventsCancel(): a signal arrives, the
   listener is closed, Shutdown returns when no handler is active or when the 30 s
   timeout of shutdownCtx fires (handlers still active keep running), and the
   context of Run is cancelled. *)
EventsCancel ==
    /\ mainPc = "serving"
    /\ mainPc' = "wait"
    /\ cancelled' = TRUE
    /\ beforeCancel' = {r \in Requests : pc[r] = "nil"}
    /\ UNCHANGED ch
    /\ UNCHANGED workerVars
    /\ UNCHANGED requestVars
    /\ UNCHANGED apiVars

(* e.wg.Wait() returns when the counter is zero. *)
WaitReturns(counter) == counter = 0

(* events.WaitFlush() *)
WaitFlush ==
    /\ mainPc = "wait"
    /\ WaitReturns(wg)
    /\ mainPc' = "returned"
    /\ UNCHANGED <<cancelled, beforeCancel, ch>>
    /\ UNCHANGED workerVars
    /\ UNCHANGED requestVars
    /\ UNCHANGED apiVars

(* main returns: the process ends, and every goroutine with it. *)
MainReturn ==
    /\ mainPc = "returned"
    /\ mainPc' = "exited"
    /\ UNCHANGED <<cancelled, beforeCancel, ch>>
    /\ UNCHANGED workerVars
    /\ UNCHANGED requestVars
    /\ UNCHANGED apiVars

(***************************************************************************)
(* Events.Run, Events.flushQueue, Events.Insert of src/db.go               *)
(***************************************************************************)

(* e.wg.Add(1); defer e.wg.Done() *)
RunWgAdd ==
    /\ Alive
    /\ runPc = "spawned"
    /\ runPc' = "init"
    /\ wg' = wg + 1
    /\ UNCHANGED <<chMade, chClosed, ch, q, tmp, trigger, timer, batches, everFired, received>>
    /\ UNCHANGED mainVars
    /\ UNCHANGED requestVars
    /\ UNCHANGED apiVars

(* e.ch = make(chan qdata, 100); timer := time.NewTimer(flushInterval) *)
RunMakeChan ==
    /\ Alive
    /\ runPc = "init"
    /\ runPc' = "select"
    /\ chMade' = TRUE
    /\ timer' = "active"
    /\ UNCHANGED <<wg, chClosed, ch, q, tmp, trigger, batches, everFired, received>>
    /\ UNCHANGED mainVars
    /\ UNCHANGED requestVars
    /\ UNCHANGED apiVars

(* flushInterval elapses on the running timer: a value is sent on timer.C. *)
TimerFire ==
    /\ Alive
    /\ runPc # "returned"
    /\ timer = "active"
    /\ timer' = "fired"
    /\ everFired' = TRUE
    /\ UNCHANGED <<runPc, wg, chMade, chClosed, ch, q, tmp, trigger, batches, received>>
    /\ UNCHANGED mainVars
    /\ UNCHANGED requestVars
    /\ UNCHANGED apiVars

(* Faulty variant of ShouldFlush: the comparison is strict. *)
ShouldFlushAbove(currentSize) == currentSize > maxBatchSize

(* Faulty variant of ShouldFlush: the threshold is one too low. *)
ShouldFlushEarly(currentSize) == currentSize + 1 >= maxBatchSize

(* Faulty variant of ShouldFlush: the size never asks for a flush. *)
ShouldFlushNever(currentSize) == FALSE

(* if currentSize >= maxBatchSize *)
ShouldFlush(currentSize) == currentSize >= maxBatchSize

(* Faulty variant of TimerAfterRecv: the arrival of an event leaves the timer alone. *)
TimerAfterRecvKept(t) == t

(* if !timer.Stop() { <-timer.C }; timer.Reset(flushInterval), executed for every
   received event before the size check: a running timer is stopped, a value
   already waiting in timer.C is thrown away, and the timer is started again for
   a full flushInterval. *)
TimerAfterRecv(t) == "active"

(* What timer.Stop() may report: true for a running timer, false for one whose
   value was received and that was not reset since; for a timer that fired with
   its value still waiting in timer.C, false with the runtimes that leave the
   value there and true with those that discard it in Stop. *)
StopReports(t) ==
    CASE t = "active" -> {TRUE}
      [] t = "fired" -> {TRUE, FALSE}
      [] OTHER -> {FALSE}

(* if !timer.Stop() { <-timer.C } blocks: Stop may report false while no value
   waits in timer.C, so the receive never returns. *)
DrainBlocks(t) == FALSE \in StopReports(t) /\ t # "fired"

(* case data, ok := <-e.ch: a buffered value is received, appended to e.q, the
   timer is stopped, drained and reset, and the size is checked; where the drain
   of the timer blocks, Run stays there (drainTimer).  With the channel closed
   and empty, ok is false and the final flush follows. *)
RunRecv ==
    /\ Alive
    /\ runPc = "select"
    /\ ~(ch = <<>> /\ ~chClosed)
    /\ IF ch # <<>>
         THEN /\ ch' = Tail(ch)
              /\ q' = Append(q, Head(ch))
              /\ received' = Append(received, Head(ch))
              /\ IF DrainBlocks(timer)
                   THEN runPc' = "drainTimer" /\ trigger' = trigger /\ timer' = timer
                   ELSE /\ timer' = TimerAfterRecv(timer)
                        /\ IF ShouldFlush(Len(q) + 1)
                             THEN runPc' = "flush" /\ trigger' = "size"
                             ELSE runPc' = "select" /\ trigger' = trigger
         ELSE /\ runPc' = "flush"
              /\ trigger' = "final"
              /\ UNCHANGED <<ch, q, timer, received>>
    /\ UNCHANGED <<wg, chMade, chClosed, tmp, batches, everFired>>
    /\ UNCHANGED mainVars
    /\ UNCHANGED requestVars
    /\ UNCHANGED apiVars

(* case <-timer.C: the fired value is received; flushQueue follows, then Reset. *)
RunTimer ==
    /\ Alive
    /\ runPc = "select"
    /\ timer = "fired"
    /\ timer' = "idle"
    /\ runPc' = "flush"
    /\ trigger' = "timer"
    /\ UNCHANGED <<wg, chMade, chClosed, ch, q, tmp, batches, everFired, received>>
    /\ UNCHANGED mainVars
    /\ UNCHANGED requestVars
    /\ UNCHANGED apiVars

(* Faulty variant of Drain: the values still buffered in the channel are left. *)
DrainNothing(buf, chan) == buf

(* Faulty variant of Drain: the drained values are put in front of the buffer. *)
DrainPrepended(buf, chan) == chan \o buf

(* for data := range e.ch { e.q = append(e.q, data) } on the closed channel *)
Drain(buf, chan) == buf \o chan

(* case <-ctx.Done(): close(e.ch), move what the channel still buffers into e.q;
   the final flush follows. *)
RunCtxDone ==
    /\ Alive
    /\ runPc = "select"
    /\ cancelled
    /\ chClosed' = TRUE
    /\ q' = Drain(q, ch)
    /\ received' = received \o ch
    /\ ch' = <<>>
    /\ runPc' = "flush"
    /\ trigger' = "final"
    /\ UNCHANGED <<wg, chMade, tmp, timer, batches, everFired>>
    /\ UNCHANGED mainVars
    /\ UNCHANGED requestVars
    /\ UNCHANGED apiVars

(* Faulty variant of NothingToFlush: the empty buffer is not recognised. *)
NothingToFlushNever(buf) == FALSE

(* if len(e.q) == 0 { return } *)
NothingToFlush(buf) == Len(buf) = 0

(* tmp := make([]qdata, len(e.q)); copy(tmp, e.q) *)
CopyBuffer(buf) == buf

(* Faulty variant of ClearBuffer: the buffer keeps the rows it handed over. *)
ClearBufferKept(buf) == buf

(* e.q = e.q[:0] *)
ClearBuffer(buf) == SubSeq(buf, 1, 0)

(* Faulty variant of AfterFlush: Run goes back to its loop after the final flush. *)
AfterFlushLoops(trig) == "select"

(* Where Run continues after flushQueue returned. *)
AfterFlush(trig) == IF trig = "final" THEN "done" ELSE "select"

(* Faulty variant of TimerAfterFlush: no Reset follows the flush of the timer
   branch. *)
TimerAfterFlushNoReset(trig, t) == t

(* timer.Reset(flushInterval) follows the flush of the timer branch only. *)
TimerAfterFlush(trig, t) == IF trig = "timer" THEN "active" ELSE t

(* flushQueue up to the call of Insert: under the lock, return when the buffer is
   empty, else copy it to tmp and clear it; then Insert(tmp) is called. *)
FlushQueue ==
    /\ Alive
    /\ runPc = "flush"
    /\ IF NothingToFlush(q)
         THEN /\ runPc' = AfterFlush(trigger)
              /\ timer' = TimerAfterFlush(trigger, timer)
              /\ UNCHANGED <<q, tmp, batches>>
         ELSE /\ tmp' = CopyBuffer(q)
              /\ q' = ClearBuffer(q)
              /\ batches' = Append(batches,
                     [rows |-> CopyBuffer(q), trigger |-> trigger, result |-> "inflight"])
              /\ runPc' = "insert"
              /\ timer' = timer
    /\ UNCHANGED <<wg, chMade, chClosed, ch, trigger, everFired, received>>
    /\ UNCHANGED mainVars
    /\ UNCHANGED requestVars
    /\ UNCHANGED apiVars

(* Faulty variant of BufferAfterInsert: a failed batch is put back in the buffer. *)
BufferRequeued(buf, batch, ok) == IF ok THEN buf ELSE batch \o buf

(* What flushQueue does with e.q when Insert returned: nothing, on success and on
   failure alike (the failure is logged). *)
BufferAfterInsert(buf, batch, ok) == buf

(* Insert returns nil or an error (prepare, append or send failed, or its own 20 s
   timeout); flushQueue logs the outcome and returns to Run. *)
InsertReturn ==
    /\ Alive
    /\ runPc = "insert"
    /\ \E ok \in BOOLEAN :
         /\ batches' = [batches EXCEPT ![Len(batches)].result =
                            IF ok THEN "ok" ELSE "failed"]
         /\ q' = BufferAfterInsert(q, tmp, ok)
    /\ tmp' = <<>>
    /\ runPc' = AfterFlush(trigger)
    /\ timer' = TimerAfterFlush(trigger, timer)
    /\ UNCHANGED <<wg, chMade, chClosed, ch, trigger, everFired, received>>
    /\ UNCHANGED mainVars
    /\ UNCHANGED requestVars
    /\ UNCHANGED apiVars

(* Insert stamps its rows with TimeToInt(time.Now()), and TimeToInt calls
   log.Fatal when strconv.ParseInt rejects the formatted time (FormatFits, below,
   is false for the current time): the process ends inside Insert. *)
InsertFatal ==
    /\ Alive
    /\ runPc = "insert"
    /\ mainPc' = "fatal"
    /\ UNCHANGED <<cancelled, beforeCancel, ch>>
    /\ UNCHANGED workerVars
    /\ UNCHANGED requestVars
    /\ UNCHANGED apiVars

(* Run returns: the deferred e.wg.Done() runs. *)
RunReturn ==
    /\ Alive
    /\ runPc = "done"
    /\ runPc' = "returned"
    /\ wg' = wg - 1
    /\ UNCHANGED <<chMade, chClosed, ch, q, tmp, trigger, timer, batches, everFired, received>>
    /\ UNCHANGED mainVars
    /\ UNCHANGED requestVars
    /\ UNCHANGED apiVars

(***************************************************************************)
(* track() of src/cmd/tracker/main.go and Events.Add of src/db.go          *)
(***************************************************************************)

(* The server accepts a /track request and starts its handler goroutine; the
   listener is open until server.Shutdown is called.  Requests are numbered in
   arrival order. *)
Arrive(r) ==
    /\ mainPc = "serving"
    /\ r = nreq + 1
    /\ nreq' = r
    /\ pc' = [pc EXCEPT ![r] = "handler"]
    /\ UNCHANGED <<pch, ch>>
    /\ UNCHANGED mainVars
    /\ UNCHANGED workerVars
    /\ UNCHANGED apiVars

(* r.Context() is cancelled while the handler has not yet called Add: the client
   went away. *)
CtxCancel(r) ==
    /\ Alive
    /\ pc[r] = "handler"
    /\ pc' = [pc EXCEPT ![r] = "handlerCtxDone"]
    /\ UNCHANGED <<nreq, pch, ch>>
    /\ UNCHANGED mainVars
    /\ UNCHANGED workerVars
    /\ UNCHANGED apiVars

(* The channel operand e.ch of Add's select, evaluated once on entering it. *)
ChanOperand(made) == IF made THEN "ch" ELSE "nil"

(* case e.ch <- data can proceed with a value buffered: the channel is not nil
   (a send on a nil channel never proceeds), open, and has room. *)
SendReady(operand, closed, chan) == operand = "ch" /\ ~closed /\ Len(chan) < chanCap

(* case e.ch <- data proceeds on a closed channel, and panics. *)
SendPanics(operand, closed) == operand = "ch" /\ closed

(* The cases of Add's select that can proceed; with several, Go picks one at random.
   ctxIsDone: <-ctx.Done() can proceed. *)
ReadyCases(operand, closed, chan, ctxIsDone) ==
    {c \in {"send", "panic", "ctx"} :
        \/ c = "send" /\ SendReady(operand, closed, chan)
        \/ c = "panic" /\ SendPanics(operand, closed)
        \/ c = "ctx" /\ ctxIsDone}

(* What the chosen case makes of the call: return nil, panic, or return ctx.Err(). *)
CaseResult(c) == IF c = "send" THEN "nil" ELSE IF c = "panic" THEN "panic" ELSE "err"

(* Faulty variant of ChanAfter: the send case buffers nothing. *)
ChanAfterDropped(c, chan, r) == chan

(* Faulty variant of ChanAfter: the value is buffered whichever case is taken. *)
ChanAfterAlways(c, chan, r) == Append(chan, r)

(* Faulty variant of ChanAfter: the case of the done context empties the channel. *)
ChanAfterCtxClears(c, chan, r) ==
    IF c = "send" THEN Append(chan, r) ELSE IF c = "ctx" THEN SubSeq(chan, 1, 0) ELSE chan

(* The channel after the chosen case. *)
ChanAfter(c, chan, r) == IF c = "send" THEN Append(chan, r) ELSE chan

(* events.Add(r.Context(), ...) is called by the handler of request r: the select
   is entered; one of the cases that can proceed is taken, and with none of them
   the call blocks. *)
AddCall(r) ==
    /\ Alive
    /\ pc[r] \in {"handler", "handlerCtxDone"}
    /\ LET operand == ChanOperand(chMade)
           ready == ReadyCases(operand, chClosed, ch, pc[r] = "handlerCtxDone")
       IN  /\ pch' = [pch EXCEPT ![r] = operand]
           /\ IF ready = {}
                THEN pc' = [pc EXCEPT ![r] = "select"] /\ ch' = ch
                ELSE \E c \in ready :
                       /\ pc' = [pc EXCEPT ![r] = CaseResult(c)]
                       /\ ch' = ChanAfter(c, ch, r)
    /\ UNCHANGED nreq
    /\ UNCHANGED mainVars
    /\ UNCHANGED workerVars
    /\ UNCHANGED apiVars

(* A blocked Add is woken by the first of its cases that can proceed: room in the
   channel, the close of the channel, or the end of its context, which may come
   at any time.  A panic of the handler goroutine is recovered by net/http: it
   ends the request, not the process. *)
AddWake(r) ==
    /\ Alive
    /\ pc[r] = "select"
    /\ \E c \in ReadyCases(pch[r], chClosed, ch, TRUE) :
         /\ pc' = [pc EXCEPT ![r] = CaseResult(c)]
         /\ ch' = ChanAfter(c, ch, r)
    /\ UNCHANGED <<nreq, pch>>
    /\ UNCHANGED mainVars
    /\ UNCHANGED workerVars
    /\ UNCHANGED apiVars

Next ==
    \/ GoRun
    \/ EventsCancel
    \/ WaitFlush
    \/ MainReturn
    \/ RunWgAdd
    \/ RunMakeChan
    \/ TimerFire
    \/ RunRecv
    \/ RunTimer
    \/ RunCtxDone
    \/ FlushQueue
    \/ InsertReturn
    \/ InsertFatal
    \/ RunReturn
    \/ \E r \in Requests : Arrive(r)
    \/ \E r \in Requests : CtxCancel(r)
    \/ \E r \in Requests : AddCall(r)
    \/ \E r \in Requests : AddWake(r)

Spec == Init /\ [][Next]_vars

(* The scheduling of Go: a goroutine that can take its next step takes it, so
   the statements of Run, flushQueue and main that are not a choice are weakly
   fair, the return of Insert too (every storage call returns, unless log.Fatal
   ends the process inside it); the select of Run picks among its ready cases at
   random, so the ctx.Done case, ready from the cancellation on whenever Run is
   at its select, is strongly fair.  Nothing forces a signal, an arrival, a
   timer or the end of a caller's context. *)
FairSpec ==
    /\ Spec
    /\ WF_vars(RunWgAdd)
    /\ WF_vars(RunMakeChan)
    /\ SF_vars(RunCtxDone)
    /\ WF_vars(FlushQueue)
    /\ WF_vars(InsertReturn)
    /\ WF_vars(RunReturn)
    /\ WF_vars(WaitFlush)
    /\ WF_vars(MainReturn)

(***************************************************************************)
(* Events.GenQuery and Events.GetStats of src/db.go                        *)
(***************************************************************************)

(* Number of GetStats calls in one run. *)
MaxStatsCalls == 2

(* Faulty variant of Field: the columns of Referrer and ReferrerHost are swapped. *)
FieldSwapped(data) ==
    CASE data.what = QueryPageViews -> "event"
      [] data.what = QueryPageViewList -> "event"
      [] data.what = QueryUniqueVisitors -> "user_id"
      [] data.what = QueryReferrer -> "referrer_domain"
      [] data.what = QueryReferrerHost -> "referrer"
      [] data.what = QueryBrowsers -> "browser_name"
      [] data.what = QueryOSes -> "os_name"
      [] data.what = QueryCountry -> "country"
      [] OTHER -> ""

(* The switch of GenQuery on data.What: field; no default case, so field stays "". *)
Field(data) ==
    CASE data.what = QueryPageViews -> "event"
      [] data.what = QueryPageViewList -> "event"
      [] data.what = QueryUniqueVisitors -> "user_id"
      [] data.what = QueryReferrer -> "referrer"
      [] data.what = QueryReferrerHost -> "referrer_domain"
      [] data.what = QueryBrowsers -> "browser_name"
      [] data.what = QueryOSes -> "os_name"
      [] data.what = QueryCountry -> "country"
      [] OTHER -> ""

(* The switch of GenQuery on data.What: daily, true unless a case clears it. *)
Daily(data) ==
    data.what \notin {QueryPageViewList, QueryReferrer, QueryReferrerHost,
                      QueryBrowsers, QueryOSes, QueryCountry}

(* Faulty variant of Where: the extra value is written into the query text. *)
WhereInterpolated(data) ==
    IF data.what = QueryReferrer
      THEN <<"AND", "referrer_domain", "=", data.extra>>
      ELSE <<"AND", "$4", "=", "$4">>

(* The switch of GenQuery on data.What: where, "AND $4 = $4" unless the Referrer
   case sets it to "AND referrer_domain = $3 ".  Query text is a sequence of
   tokens; a placeholder is a token of its own. *)
Where(data) ==
    IF data.what = QueryReferrer
      THEN <<"AND", "referrer_domain", "=", "$3">>
      ELSE <<"AND", "$4", "=", "$4">>

(* fmt.Sprintf of the daily template with (field, field). *)
DailyQuery(field) ==
    <<"SELECT", "occured_at", ",", field, ",", "COUNT(*)", "FROM", "events",
      "WHERE", "site_id", "=", "$1", "AND", "category", "=", "'Page views'",
      "GROUP BY", "occured_at", ",", field,
      "HAVING", "occured_at", "BETWEEN", "$2", "AND", "$3",
      "ORDER BY", "3", "DESC", ";">>

(* fmt.Sprintf of the totals template with (field, where, field). *)
TotalsQuery(field, where) ==
    <<"SELECT", "toUInt32(0)", ",", field, ",", "COUNT(*)", "FROM", "events",
      "WHERE", "site_id", "=", "$1",
      "AND", "occured_at", "BETWEEN", "$2", "AND", "$3",
      "AND", "category", "=", "'Page views'">>
    \o where
    \o <<"GROUP BY", field, "ORDER BY", "3", "DESC", ";">>

(* Events.GenQuery *)
GenQuery(data) ==
    IF Daily(data)
      THEN DailyQuery(Field(data))
      ELSE TotalsQuery(Field(data), Where(data))

(* The fields of data that GetStats passes to e.DB.Query after qry, by position:
   the i-th of them is bound to the placeholder $i. *)
QueryArgs == <<"siteID", "start", "end", "extra">>

(* The placeholders of the query text, by position of the bound value. *)
Placeholders == <<"$1", "$2", "$3", "$4">>

(* e.DB.Query(queryCtx, qry, data.SiteID, data.Start, data.End, data.Extra) with
   qry := e.GenQuery(data) *)
QueryCall(data) ==
    [data |-> data,
     qry |-> GenQuery(data),
     args |-> [i \in 1..Len(QueryArgs) |-> data[QueryArgs[i]]]]

(* Events.GetStats up to its call of e.DB.Query: the query text of GenQuery and
   the four values are handed to the store.  There is no check of data.What. *)
GetStats(data) ==
    /\ Cardinality(statsCalls) < MaxStatsCalls
    /\ statsCalls' = statsCalls \cup {QueryCall(data)}
    /\ UNCHANGED batcherVars
    /\ UNCHANGED stampVars
    /\ UNCHANGED trackVars
    /\ UNCHANGED extraVars

QueryNext == \E data \in MetricRequests : GetStats(data)

QuerySpec == Init /\ [][QueryNext]_vars

(***************************************************************************)
(* TimeToInt of src/utils.go and the row loop of Events.Insert (src/db.go) *)
(***************************************************************************)

(* Rows in the batch of the Insert call followed here. *)
MaxRows == 2

(* Number of times the clock is advanced in one run. *)
MaxTicks == 1

(* A number as decimal digits, without padding (below 100). *)
Unpadded(n) == IF n < 10 THEN <<n>> ELSE <<n \div 10, n % 10>>

(* A number as two decimal digits (below 100). *)
Padded2(n) == <<n \div 10, n % 10>>

(* d.Format("20240102").  time.Format reads a layout as a sequence of reference
   elements: "2006" is the year, but "2024" is not, so the layout is read as
   "2" (day), "02" (day, two digits), "4" (minute), "01" (month, two digits),
   "02" (day, two digits). *)
Format(t) ==
    Unpadded(t.day) \o Padded2(t.day) \o Unpadded(t.minute)
        \o Padded2(t.month) \o Padded2(t.day)

(* The value of a sequence of decimal digits. *)
RECURSIVE DecimalValue(_)
DecimalValue(ds) ==
    IF ds = <<>> THEN 0
    ELSE DecimalValue(SubSeq(ds, 1, Len(ds) - 1)) * 10 + ds[Len(ds)]

(* The decimal digits of 1<<31 - 1, the largest int32. *)
MaxInt32Digits == <<2, 1, 4, 7, 4, 8, 3, 6, 4, 7>>

(* strconv.ParseInt(now, 10, 32) returns no error: the digits, which have no
   leading zero, denote a value of at most 1<<31 - 1.  The digits are compared,
   the value is not computed when it does not fit. *)
ParseIntFits(ds) ==
    \/ Len(ds) < Len(MaxInt32Digits)
    \/ /\ Len(ds) = Len(MaxInt32Digits)
       /\ \/ ds = MaxInt32Digits
          \/ \E i \in 1..Len(ds) :
                /\ ds[i] < MaxInt32Digits[i]
                /\ \A k \in 1..(i - 1) : ds[k] = MaxInt32Digits[k]

(* TimeToInt, when ParseInt returned no error: uint32(i), which is i for the
   non-negative int32 values that ParseInt returns here. *)
TimeToInt(t) == DecimalValue(Format(t))

(* The day after the day of t. *)
NextDay(t) ==
    IF t.day < DaysIn(t.year, t.month) THEN [t EXCEPT !.day = t.day + 1]
    ELSE IF t.month < 12 THEN [t EXCEPT !.month = t.month + 1, !.day = 1]
    ELSE [t EXCEPT !.year = t.year + 1, !.month = 1, !.day = 1]

(* Time passes: to a later minute of the same day, or past midnight. *)
ClockAdvance ==
    /\ insPc \in {"collect", "insert"}
    /\ ticks < MaxTicks
    /\ ticks' = ticks + 1
    /\ \E m \in MinuteSamples :
          IF m > now.minute
            THEN now' \in {[now EXCEPT !.minute = m], [NextDay(now) EXCEPT !.minute = m]}
            ELSE now' = [NextDay(now) EXCEPT !.minute = m]
    /\ UNCHANGED <<batchRows, appended, insPc>>
    /\ UNCHANGED batcherVars
    /\ UNCHANGED queryVars
    /\ UNCHANGED trackVars
    /\ UNCHANGED extraVars

(* Add takes an event that will be a row of the batch. *)
BatchAdd ==
    /\ insPc = "collect"
    /\ Len(batchRows) < MaxRows
    /\ batchRows' = Append(batchRows, now)
    /\ UNCHANGED <<now, appended, insPc, ticks>>
    /\ UNCHANGED batcherVars
    /\ UNCHANGED queryVars
    /\ UNCHANGED trackVars
    /\ UNCHANGED extraVars

(* flushQueue calls Insert with the batch, which is not empty. *)
InsertCall ==
    /\ insPc = "collect"
    /\ batchRows # <<>>
    /\ insPc' = "insert"
    /\ UNCHANGED <<now, batchRows, appended, ticks>>
    /\ UNCHANGED batcherVars
    /\ UNCHANGED queryVars
    /\ UNCHANGED trackVars
    /\ UNCHANGED extraVars

(* One turn of the loop of Insert: batch.Append(qd.trk.SiteID,
   TimeToInt(time.Now()), ...) for the next row.  TimeToInt ends the process
   with log.Fatal when ParseInt returns an error. *)
InsertAppend ==
    /\ insPc = "insert"
    /\ Len(appended) < Len(batchRows)
    /\ IF ParseIntFits(Format(now))
         THEN /\ appended' = Append(appended,
                    [addedAt |-> batchRows[Len(appended) + 1],
                     insertedAt |-> now,
                     occuredAt |-> TimeToInt(now)])
              /\ insPc' = insPc
         ELSE /\ insPc' = "fatal"
              /\ appended' = appended
    /\ UNCHANGED <<now, batchRows, ticks>>
    /\ UNCHANGED batcherVars
    /\ UNCHANGED queryVars
    /\ UNCHANGED trackVars
    /\ UNCHANGED extraVars

(* batch.Send() after the last row. *)
InsertSend ==
    /\ insPc = "insert"
    /\ Len(appended) = Len(batchRows)
    /\ insPc' = "sent"
    /\ UNCHANGED <<now, batchRows, appended, ticks>>
    /\ UNCHANGED batcherVars
    /\ UNCHANGED queryVars
    /\ UNCHANGED trackVars
    /\ UNCHANGED extraVars

StampNext ==
    \/ ClockAdvance
    \/ BatchAdd
    \/ InsertCall
    \/ InsertAppend
    \/ InsertSend

StampSpec == (\E t \in Instants : InitWith(t, PlainRequest)) /\ [][StampNext]_vars

(***************************************************************************)
(* track() of src/cmd/tracker/main.go, one request from decode to response *)
(***************************************************************************)

http_StatusOK == 200
http_StatusBadRequest == 400
http_StatusInternalServerError == 500

(* The error of json.NewDecoder(r.Body).Decode(&trk): nil; *json.SyntaxError;
   *json.UnmarshalTypeError; io.EOF for a body without bytes;
   io.ErrUnexpectedEOF for a JSON text that ends before its value is complete;
   the error of the reader. *)
Decode(body) ==
    CASE body = "valid" -> "nil"
      [] body = "notJSON" -> "SyntaxError"
      [] body = "wrongType" -> "UnmarshalTypeError"
      [] body = "empty" -> "EOF"
      [] body = "truncated" -> "ErrUnexpectedEOF"
      [] body = "readFails" -> "readError"

(* errors.As(err, &syntaxError) || errors.As(err, &unmarshalTypeError) *)
IsClientError(err) == err \in {"SyntaxError", "UnmarshalTypeError"}

(* The decode step of track: on an error the handler answers 400 or 500 and
   returns. *)
TrackDecode ==
    /\ trackPc = "decode"
    /\ IF Decode(trackReq.body) = "nil"
         THEN trackPc' = "enrich" /\ trackStatus' = trackStatus
         ELSE /\ trackPc' = "done"
              /\ trackStatus' = IF IsClientError(Decode(trackReq.body))
                                   THEN http_StatusBadRequest
                                   ELSE http_StatusInternalServerError
    /\ UNCHANGED <<trackReq, trackAdd>>
    /\ UNCHANGED batcherVars
    /\ UNCHANGED queryVars
    /\ UNCHANGED stampVars
    /\ UNCHANGED extraVars

(* geoInfo: looked up only with an IP, nil when the lookup fails. *)
GeoInfoOf(treq) == IF treq.ip # "nil" /\ treq.geo = "info" THEN "info" ELSE "nil"

(* trk.Action.ReferrerHost: u.Host when the referrer is not empty and parses. *)
ReferrerHostOf(treq) == IF treq.referrer = "url" THEN "host" ELSE ""

(* trk.Action.Identity: synthesised from the IP, or from "unknown", and the user
   agent when the request carries none. *)
IdentityOf(treq) ==
    IF treq.identity # "" THEN treq.identity
    ELSE IF treq.ip # "nil" THEN "ip-ua"
    ELSE "unknown-ua"

(* From the IP lookup to the arguments of events.Add: a failed IP or geo lookup
   is logged and the handler goes on. *)
TrackEnrich ==
    /\ trackPc = "enrich"
    /\ trackPc' = "add"
    /\ trackAdd' = [result |-> "notCalled",
                    identity |-> IdentityOf(trackReq),
                    referrerHost |-> ReferrerHostOf(trackReq),
                    geo |-> GeoInfoOf(trackReq)]
    /\ UNCHANGED <<trackReq, trackStatus>>
    /\ UNCHANGED batcherVars
    /\ UNCHANGED queryVars
    /\ UNCHANGED stampVars
    /\ UNCHANGED extraVars

(* The status the handler writes after events.Add returned. *)
StatusAfterAdd(result) ==
    IF result = "nil" THEN http_StatusOK ELSE http_StatusInternalServerError

(* events.Add(r.Context(), trk, ua, geoInfo) ends by one of the cases of its
   select (see AddCall); the handler answers 500 on an error and 200 otherwise.
   A panic of Add ends the handler without a status written by it. *)
TrackAdd ==
    /\ trackPc = "add"
    /\ \E c \in {"send", "panic", "ctx"} :
          /\ trackAdd' = [trackAdd EXCEPT !.result = CaseResult(c)]
          /\ IF CaseResult(c) = "panic"
               THEN trackPc' = "panic" /\ trackStatus' = trackStatus
               ELSE trackPc' = "done" /\ trackStatus' = StatusAfterAdd(CaseResult(c))
    /\ UNCHANGED trackReq
    /\ UNCHANGED batcherVars
    /\ UNCHANGED queryVars
    /\ UNCHANGED stampVars
    /\ UNCHANGED extraVars

TrackNext ==
    \/ TrackDecode
    \/ TrackEnrich
    \/ TrackAdd

TrackSpec == (\E treq \in TrackRequests : InitWith(Epoch, treq)) /\ [][TrackNext]_vars

(***************************************************************************)
(* stats() of src/cmd/tracker/main.go and the rest of Events.GetStats      *)
(***************************************************************************)

(* Rows that a query returns at most. *)
MaxMetrics == 2

http_StatusUnauthorized == 401

(* What happens at the store: the query fails (timeout included), a Scan fails,
   the iteration ends with rows.Err(), or every row is read. *)
StoreOutcomes == {"queryFails", "scanFails", "iterFails", "ok"}

(* Faulty variant of GetStatsReturn: the error of rows.Err() is dropped. *)
GetStatsReturnIterOk(outcome, scanned) ==
    CASE outcome = "queryFails" -> [outcome |-> outcome, scanned |-> scanned, rows |-> 0, err |-> "error"]
      [] outcome = "scanFails" -> [outcome |-> outcome, scanned |-> scanned, rows |-> 0, err |-> "error"]
      [] outcome = "iterFails" -> [outcome |-> outcome, scanned |-> scanned, rows |-> scanned, err |-> "nil"]
      [] outcome = "ok" -> [outcome |-> outcome, scanned |-> scanned, rows |-> scanned, err |-> "nil"]

(* What GetStats returns, with `scanned` rows appended to metrics so far (kept in
   the record beside the number of rows returned): nil and
   an error when the query or a Scan failed, metrics and an error when the
   iteration failed, metrics and nil otherwise. *)
GetStatsReturn(outcome, scanned) ==
    CASE outcome = "queryFails" -> [outcome |-> outcome, scanned |-> scanned, rows |-> 0, err |-> "error"]
      [] outcome = "scanFails" -> [outcome |-> outcome, scanned |-> scanned, rows |-> 0, err |-> "error"]
      [] outcome = "iterFails" -> [outcome |-> outcome, scanned |-> scanned, rows |-> scanned, err |-> "error"]
      [] outcome = "ok" -> [outcome |-> outcome, scanned |-> scanned, rows |-> scanned, err |-> "nil"]

(* Faulty variant of Authorized: every key is taken. *)
AuthorizedAlways(key, apiKey) == TRUE

(* key == tracker.GetConfig().APIKey *)
Authorized(key, apiKey) == key = apiKey

(* The key check of stats: 401 and return when the header is not the key. *)
StatsAuth ==
    /\ statsPc = "auth"
    /\ IF Authorized(statsReq.key, statsReq.apiKey)
         THEN statsPc' = "decode" /\ statsStatus' = statsStatus
         ELSE statsPc' = "done" /\ statsStatus' = http_StatusUnauthorized
    /\ UNCHANGED <<statsReq, statsResult>>
    /\ UNCHANGED batcherVars
    /\ UNCHANGED <<queryVars, stampVars, trackVars, lockVars, sqlVars, geoVars>>

(* json.NewDecoder(r.Body).Decode(&data): 400 and return on any error. *)
StatsDecode ==
    /\ statsPc = "decode"
    /\ IF Decode(statsReq.body) = "nil"
         THEN statsPc' = "query" /\ statsStatus' = statsStatus
         ELSE statsPc' = "done" /\ statsStatus' = http_StatusBadRequest
    /\ UNCHANGED <<statsReq, statsResult>>
    /\ UNCHANGED batcherVars
    /\ UNCHANGED <<queryVars, stampVars, trackVars, lockVars, sqlVars, geoVars>>

(* The status after events.GetStats returned: 500 on an error, else the metrics
   are written as JSON with the implicit 200. *)
StatusAfterGetStats(err) ==
    IF err # "nil" THEN http_StatusInternalServerError ELSE http_StatusOK

(* events.GetStats(r.Context(), data): the query is handed to the store, and the
   handler answers by what GetStats returns. *)
StatsQuery ==
    /\ statsPc = "query"
    /\ statsCalls' = statsCalls \cup {QueryCall(statsReq.data)}
    /\ \E outcome \in StoreOutcomes : \E scanned \in 0..MaxMetrics :
          /\ outcome = "queryFails" => scanned = 0
          /\ statsResult' = GetStatsReturn(outcome, scanned)
          /\ statsStatus' = StatusAfterGetStats(GetStatsReturn(outcome, scanned).err)
    /\ statsPc' = "done"
    /\ UNCHANGED statsReq
    /\ UNCHANGED batcherVars
    /\ UNCHANGED <<stampVars, trackVars, lockVars, sqlVars, geoVars>>

StatsNext ==
    \/ StatsAuth
    \/ StatsDecode
    \/ StatsQuery

StatsSpec ==
    (\E sreq \in StatsRequests : InitFor(Epoch, PlainRequest, sreq)) /\ [][StatsNext]_vars

(***************************************************************************)
(* Run, flushQueue and Add of src/db.go, statement by statement, with      *)
(* e.lock                                                                  *)
(***************************************************************************)

(* Number of Add calls in one run. *)
MaxEvents == 3

(* The remaining state is that of the other specifications and stays as it is. *)
LockFrame ==
    /\ UNCHANGED batcherVars
    /\ UNCHANGED <<queryVars, stampVars, trackVars, statsVars, sqlVars, geoVars>>

(* Faulty variant of HolderAfterLock: Lock() does not take the lock. *)
HolderAfterLockNot(h) == h

(* e.lock.Lock() returned: the goroutine of Run holds the lock. *)
HolderAfterLock(h) == "Run"

(* Faulty variant of HolderAfterUnlock: the lock is kept. *)
HolderAfterUnlockKept(h) == h

(* e.lock.Unlock() *)
HolderAfterUnlock(h) == "unlocked"

(* The statement that follows each e.lock.Lock() of Run and flushQueue. *)
AfterLock(at) ==
    CASE at = "recvLock" -> "recvAppend"
      [] at = "drainLock" -> "drainAppend"
      [] at = "flushLock" -> "flushCheck"

(* The statement that follows each e.lock.Unlock(): after the early return of
   flushQueue and after Insert, Run goes on where the trigger says. *)
AfterUnlock(at, trig) ==
    CASE at = "recvUnlock" -> "sizeCheck"
      [] at = "drainUnlock" -> "drain"
      [] at = "flushUnlockEmpty" -> (IF trig = "final" THEN "returned" ELSE "select")
      [] at = "flushUnlock" -> "insert"

(* The statement that follows each e.q = append(e.q, data). *)
AfterAppend(at) == IF at = "recvAppend" THEN "recvUnlock" ELSE "drainUnlock"

(* Add, called by any producer with the event numbered next: one of the cases of
   its select that can proceed is taken (the context of the caller may be done at
   any time); Add touches e.ch and nothing else of Events. *)
LkAdd ==
    /\ lkSent < MaxEvents
    /\ \E c \in ReadyCases(ChanOperand(lkMade), lkClosed, lkCh, TRUE) :
          lkCh' = ChanAfter(c, lkCh, lkSent + 1)
    /\ lkSent' = lkSent + 1
    /\ UNCHANGED <<mu, lkPc, lkMade, lkClosed, lkDone, lkData, lkQ, lkSize, lkTmp, lkTrigger>>
    /\ LockFrame

(* The context handed to Run is cancelled. *)
LkCancel ==
    /\ ~lkDone
    /\ lkDone' = TRUE
    /\ UNCHANGED <<mu, lkPc, lkMade, lkClosed, lkCh, lkData, lkQ, lkSize, lkTmp, lkTrigger,
                   lkSent>>
    /\ LockFrame

(* e.ch = make(chan qdata, 100) and the creation of the timer; the loop follows. *)
LkMakeChan ==
    /\ lkPc = "make"
    /\ lkMade' = TRUE
    /\ lkPc' = "select"
    /\ UNCHANGED <<mu, lkClosed, lkDone, lkCh, lkData, lkQ, lkSize, lkTmp, lkTrigger, lkSent>>
    /\ LockFrame

(* case data, ok := <-e.ch with a value buffered. *)
LkRecv ==
    /\ lkPc = "select"
    /\ lkCh # <<>>
    /\ lkData' = Head(lkCh)
    /\ lkCh' = Tail(lkCh)
    /\ lkPc' = "recvLock"
    /\ UNCHANGED <<mu, lkMade, lkClosed, lkDone, lkQ, lkSize, lkTmp, lkTrigger, lkSent>>
    /\ LockFrame

(* case <-timer.C: the timer may have fired whenever Run is at its select. *)
LkTimer ==
    /\ lkPc = "select"
    /\ lkTrigger' = "timer"
    /\ lkPc' = "flushLock"
    /\ UNCHANGED <<mu, lkMade, lkClosed, lkDone, lkCh, lkData, lkQ, lkSize, lkTmp, lkSent>>
    /\ LockFrame

(* case <-ctx.Done(): close(e.ch); the range loop over the channel follows. *)
LkCtxDone ==
    /\ lkPc = "select"
    /\ lkDone
    /\ lkClosed' = TRUE
    /\ lkPc' = "drain"
    /\ UNCHANGED <<mu, lkMade, lkDone, lkCh, lkData, lkQ, lkSize, lkTmp, lkTrigger, lkSent>>
    /\ LockFrame

(* for data := range e.ch: the next buffered value, or the end of the loop and
   the call of flushQueue for the final flush. *)
LkDrainNext ==
    /\ lkPc = "drain"
    /\ IF lkCh # <<>>
         THEN /\ lkData' = Head(lkCh)
              /\ lkCh' = Tail(lkCh)
              /\ lkPc' = "drainLock"
              /\ lkTrigger' = lkTrigger
         ELSE /\ lkTrigger' = "final"
              /\ lkPc' = "flushLock"
              /\ UNCHANGED <<lkData, lkCh>>
    /\ UNCHANGED <<mu, lkMade, lkClosed, lkDone, lkQ, lkSize, lkTmp, lkSent>>
    /\ LockFrame

(* e.lock.Lock(), in Run after a receive, in the drain loop and on entering
   flushQueue: it goes on when the lock is free. *)
LkLock ==
    /\ lkPc \in {"recvLock", "drainLock", "flushLock"}
    /\ mu = "unlocked"
    /\ mu' = HolderAfterLock(mu)
    /\ lkPc' = AfterLock(lkPc)
    /\ UNCHANGED <<lkMade, lkClosed, lkDone, lkCh, lkData, lkQ, lkSize, lkTmp, lkTrigger, lkSent>>
    /\ LockFrame

(* e.q = append(e.q, data), and currentSize := len(e.q) after a receive. *)
LkAppend ==
    /\ lkPc \in {"recvAppend", "drainAppend"}
    /\ lkQ' = Append(lkQ, lkData)
    /\ lkSize' = IF lkPc = "recvAppend" THEN Len(lkQ) + 1 ELSE lkSize
    /\ lkData' = 0
    /\ lkPc' = AfterAppend(lkPc)
    /\ UNCHANGED <<mu, lkMade, lkClosed, lkDone, lkCh, lkTmp, lkTrigger, lkSent>>
    /\ LockFrame

(* e.lock.Unlock(), in Run after the append, in the drain loop, and in flushQueue
   before the early return and before the call of Insert. *)
LkUnlock ==
    /\ lkPc \in {"recvUnlock", "drainUnlock", "flushUnlockEmpty", "flushUnlock"}
    /\ mu' = HolderAfterUnlock(mu)
    /\ lkPc' = AfterUnlock(lkPc, lkTrigger)
    /\ UNCHANGED <<lkMade, lkClosed, lkDone, lkCh, lkData, lkQ, lkSize, lkTmp, lkTrigger, lkSent>>
    /\ LockFrame

(* The timer is stopped, drained and reset; then if currentSize >= maxBatchSize
   flushQueue is called. *)
LkSizeCheck ==
    /\ lkPc = "sizeCheck"
    /\ IF ShouldFlush(lkSize)
         THEN lkTrigger' = "size" /\ lkPc' = "flushLock"
         ELSE lkTrigger' = lkTrigger /\ lkPc' = "select"
    /\ UNCHANGED <<mu, lkMade, lkClosed, lkDone, lkCh, lkData, lkQ, lkSize, lkTmp, lkSent>>
    /\ LockFrame

(* if len(e.q) == 0 in flushQueue: the early return, else the copy. *)
LkCheckEmpty ==
    /\ lkPc = "flushCheck"
    /\ lkPc' = IF NothingToFlush(lkQ) THEN "flushUnlockEmpty" ELSE "flushCopy"
    /\ UNCHANGED <<mu, lkMade, lkClosed, lkDone, lkCh, lkData, lkQ, lkSize, lkTmp, lkTrigger,
                   lkSent>>
    /\ LockFrame

(* tmp := make([]qdata, len(e.q)); copy(tmp, e.q); e.q = e.q[:0] *)
LkCopyClear ==
    /\ lkPc = "flushCopy"
    /\ lkTmp' = CopyBuffer(lkQ)
    /\ lkQ' = ClearBuffer(lkQ)
    /\ lkPc' = "flushUnlock"
    /\ UNCHANGED <<mu, lkMade, lkClosed, lkDone, lkCh, lkData, lkSize, lkTrigger, lkSent>>
    /\ LockFrame

(* e.Insert(tmp), the storage call, returns (nil or an error, logged either way);
   flushQueue returns, and Run returns after the final flush. *)
LkInsertReturn ==
    /\ lkPc = "insert"
    /\ lkTmp' = <<>>
    /\ lkPc' = IF lkTrigger = "final" THEN "returned" ELSE "select"
    /\ UNCHANGED <<mu, lkMade, lkClosed, lkDone, lkCh, lkData, lkQ, lkSize, lkTrigger, lkSent>>
    /\ LockFrame

LockNext ==
    \/ LkAdd
    \/ LkCancel
    \/ LkMakeChan
    \/ LkRecv
    \/ LkTimer
    \/ LkCtxDone
    \/ LkDrainNext
    \/ LkLock
    \/ LkAppend
    \/ LkUnlock
    \/ LkSizeCheck
    \/ LkCheckEmpty
    \/ LkCopyClear
    \/ LkInsertReturn

LockSpec == Init /\ [][LockNext]_vars

(***************************************************************************)
(* The queries of Events.GenQuery, run by the store on the table `events`  *)
(***************************************************************************)

(* Number of rows in the table. *)
MaxStored == 2

(* The days tried for occured_at: the first and the last day of January 2024 and
   the day after; the first is before the range that starts in mid-January. *)
StoredDays == {20240101, 20240131, 20240201}

(* The rows tried: a row of the table `events` with its site_id, category and
   occured_at, and one string `val` in every column that GenQuery may select
   (event, user_id, referrer, referrer_domain, browser_name, os_name, country). *)
StoredRows ==
    [site_id : {"site-a", "site-b"},
     category : {"Page views", "Custom"},
     occured_at : StoredDays,
     val : {"google.com", "news.ycombinator.com"}]

(* The MetricData tried on the table: every Metric Kind and the values next to
   the range, for site-a, over January and over the rest of the year from
   mid-January, with and without Extra. *)
SqlRequests ==
    {data \in MetricRequests :
        /\ data.siteID = "site-a"
        /\ <<data.start, data.end>> \in {<<20240101, 20240131>>, <<20240115, 20241231>>}}

(* The words that begin a clause of the query text, and its end. *)
Keywords == {"SELECT", "FROM", "WHERE", "GROUP BY", "HAVING", "ORDER BY", ";"}

(* The tokens of the clause that keyword kw begins, none when the text has no
   such clause. *)
ClauseOf(qry, kw) ==
    IF \A i \in 1..Len(qry) : qry[i] # kw
      THEN <<>>
      ELSE LET i == CHOOSE k \in 1..Len(qry) : qry[k] = kw
               j == CHOOSE k \in (i + 1)..Len(qry) :
                       /\ qry[k] \in Keywords
                       /\ \A m \in (i + 1)..(k - 1) : qry[m] \notin Keywords
           IN  SubSeq(qry, i + 1, j - 1)

(* The items of a comma-separated list. *)
ItemsOf(clause) == SelectSeq(clause, LAMBDA t : t # ",")

(* The predicates of a WHERE or HAVING clause, joined by AND: `a = b` or
   `a BETWEEN lo AND hi`. *)
RECURSIVE PredicatesOf(_)
PredicatesOf(clause) ==
    IF clause = <<>> THEN <<>>
    ELSE IF clause[1] = "AND" THEN PredicatesOf(Tail(clause))
    ELSE IF clause[2] = "="
      THEN <<[op |-> "=", left |-> clause[1], right |-> clause[3]]>>
             \o PredicatesOf(SubSeq(clause, 4, Len(clause)))
      ELSE <<[op |-> "BETWEEN", left |-> clause[1], lo |-> clause[3], hi |-> clause[5]]>>
             \o PredicatesOf(SubSeq(clause, 6, Len(clause)))

(* An empty column name (field is "" for a What outside the switch) leaves
   `SELECT occured_at, , ...`, which is no statement. *)
WellFormed(qry) == \A i \in 1..Len(qry) : qry[i] # ""

(* The type of an operand: occured_at is UInt32 in CREATE TABLE, Start and End
   are uint32 in MetricData and bound to $2 and $3; every other column, SiteID
   ($1), Extra ($4) and the literal are strings. *)
TypeOf(operand) ==
    IF operand \in {"occured_at", "$2", "$3", "toUInt32(0)"} THEN "UInt32" ELSE "String"

(* The value of a column in a row. *)
ColumnValue(row, col) ==
    IF col \in {"site_id", "category", "occured_at"} THEN row[col] ELSE row.val

(* The value of an operand for a row: a bound argument, the literal, or a column. *)
ValueOf(operand, row, args) ==
    IF \E i \in 1..Len(Placeholders) : Placeholders[i] = operand
      THEN args[CHOOSE i \in 1..Len(Placeholders) : Placeholders[i] = operand]
    ELSE IF operand = "'Page views'" THEN "Page views"
    ELSE IF operand = "toUInt32(0)" THEN 0
    ELSE ColumnValue(row, operand)

(* A predicate that compares a string with a number. *)
IllTyped(pred) ==
    IF pred.op = "="
      THEN TypeOf(pred.left) # TypeOf(pred.right)
      ELSE {TypeOf(pred.left), TypeOf(pred.lo), TypeOf(pred.hi)} # {"UInt32"}

(* Faulty variant of Between: the upper end is not looked at. *)
BetweenOpen(x, lo, hi) == lo <= x

(* x BETWEEN lo AND hi, both ends included. *)
Between(x, lo, hi) == lo <= x /\ x <= hi

(* The predicate holds for the row; a comparison of a string with a number holds
   for no row. *)
Holds(pred, row, args) ==
    /\ ~IllTyped(pred)
    /\ IF pred.op = "="
         THEN ValueOf(pred.left, row, args) = ValueOf(pred.right, row, args)
         ELSE Between(ValueOf(pred.left, row, args), ValueOf(pred.lo, row, args),
                      ValueOf(pred.hi, row, args))

(* The rows for which every predicate of the clause holds. *)
Satisfying(rows, clause, args) ==
    {row \in rows :
        \A i \in 1..Len(PredicatesOf(clause)) : Holds(PredicatesOf(clause)[i], row, args)}

(* Faulty variant of GroupKey: the rows are grouped by the last column only. *)
GroupKeyLast(row, columns) == <<ColumnValue(row, columns[Len(columns)])>>

(* The values of the GROUP BY columns in a row. *)
GroupKey(row, columns) == [i \in 1..Len(columns) |-> ColumnValue(row, columns[i])]

(* The number of rows of the bag among `rows`. *)
RECURSIVE CountOf(_, _)
CountOf(bag, rows) ==
    IF rows = {} THEN 0
    ELSE LET row == CHOOSE r \in rows : TRUE
         IN  CopiesIn(row, bag) + CountOf(bag, rows \ {row})

(* One row of the answer for a group: the items of the SELECT list, a column
   taken from a row of the group and the count from its size. *)
AnswerRow(bag, group, items, args) ==
    [i \in 1..Len(items) |->
        IF items[i] = "COUNT(*)" THEN CountOf(bag, group)
        ELSE ValueOf(items[i], CHOOSE r \in group : TRUE, args)]

(* The rows of the answer, in no order: WHERE, then GROUP BY, then HAVING (a
   HAVING predicate looks at the grouped columns, the same in every row of the
   group), then the SELECT list. *)
AnswerRows(bag, qry, args) ==
    LET kept == Satisfying(BagToSet(bag), ClauseOf(qry, "WHERE"), args)
        columns == ItemsOf(ClauseOf(qry, "GROUP BY"))
        keys == {GroupKey(row, columns) : row \in kept}
        groups == {{row \in kept : GroupKey(row, columns) = key} : key \in keys}
        having == {group \in groups :
                     Satisfying({CHOOSE r \in group : TRUE}, ClauseOf(qry, "HAVING"), args) # {}}
    IN  {AnswerRow(bag, group, ItemsOf(ClauseOf(qry, "SELECT")), args) : group \in having}

(* ORDER BY 3 DESC: the orders in which the rows may be returned, rows with equal
   counts in any order. *)
OrderedBy3Desc(rows) ==
    {order \in [1..Cardinality(rows) -> rows] :
        /\ \A i, j \in 1..Cardinality(rows) : i # j => order[i] # order[j]
        /\ \A i, j \in 1..Cardinality(rows) : i < j => order[i][3] >= order[j][3]}

(* The text has a predicate that compares a string with a number. *)
HasIllTyped(qry) ==
    \E kw \in {"WHERE", "HAVING"} :
        \E i \in 1..Len(PredicatesOf(ClauseOf(qry, kw))) :
            IllTyped(PredicatesOf(ClauseOf(qry, kw))[i])

(* What the store may answer: an error for a text that is no statement; for a
   comparison of a string with a number either an error or the rows with the
   comparison false, as the store decides; else the rows. *)
Answers(bag, qry, args) ==
    IF ~WellFormed(qry)
      THEN {[status |-> "error", rows |-> <<>>]}
      ELSE {[status |-> "error", rows |-> <<>>] : x \in {1} \cap {IF HasIllTyped(qry) THEN 1 ELSE 0}}
           \cup {[status |-> "ok", rows |-> order] : order \in OrderedBy3Desc(AnswerRows(bag, qry, args))}

(* The remaining state is that of the other specifications and stays as it is. *)
SqlFrame ==
    /\ UNCHANGED batcherVars
    /\ UNCHANGED <<queryVars, stampVars, trackVars, statsVars, lockVars, geoVars>>

(* A row, appended by Insert and sent, is in the table. *)
StoreRow(row) ==
    /\ sqlResult.status = "none"
    /\ BagCardinality(events) < MaxStored
    /\ events' = events (+) SetToBag({row})
    /\ UNCHANGED sqlResult
    /\ SqlFrame

(* GetStats(ctx, data): the text of GenQuery is run with its four arguments, and
   the rows are scanned in the order returned. *)
RunQuery(data) ==
    /\ sqlResult.status = "none"
    /\ \E answer \in Answers(events, QueryCall(data).qry, QueryCall(data).args) :
          sqlResult' = [data |-> data, status |-> answer.status, rows |-> answer.rows]
    /\ UNCHANGED events
    /\ SqlFrame

SqlNext ==
    \/ \E row \in StoredRows : StoreRow(row)
    \/ \E data \in SqlRequests : RunQuery(data)

SqlSpec == Init /\ [][SqlNext]_vars

(***************************************************************************)
(* The geo argument of Events.Add, from the call to the row of Insert      *)
(***************************************************************************)

(* Number of Add calls whose geo is followed. *)
MaxGeoEvents == 2

(* The nil *GeoInfo; a pointer is a record that says whether it is nil, and what
   it points to when it is not. *)
NilGeo == [isNil |-> TRUE, Country |-> "", RegionName |-> ""]

(* The geo arguments tried: nil (no IP, or the lookup failed) and pointers to the
   GeoInfo structs with these countries and regions, the empty strings included. *)
GeoArgs ==
    {NilGeo} \cup [isNil : {FALSE}, Country : {"", "Germany", "Japan"},
                   RegionName : {"", "Bavaria", "Kanto"}]

(* &GeoInfo{}: every string field is "". *)
EmptyGeoInfo == [isNil |-> FALSE, Country |-> "", RegionName |-> ""]

(* Faulty variant of QdataGeo: the pointer is stored as it came. *)
QdataGeoAsGiven(geo) == geo

(* if geo == nil { geo = &GeoInfo{} }; data := qdata{trk, ua, geo} *)
QdataGeo(geo) == IF geo.isNil THEN EmptyGeoInfo ELSE geo

(* The remaining state is that of the other specifications and stays as it is. *)
GeoFrame ==
    /\ UNCHANGED batcherVars
    /\ UNCHANGED <<queryVars, stampVars, trackVars, statsVars, lockVars, sqlVars>>

(* Add(ctx, trk, ua, geo): the qdata is built, and the select sends it or the
   context of the caller ends the call. *)
GeoAdd(geo) ==
    /\ geoPc = "collect"
    /\ Len(geoCh) < MaxGeoEvents
    /\ \E c \in {"send", "ctx"} :
          IF c = "send"
            THEN /\ geoCh' = Append(geoCh, QdataGeo(geo))
                 /\ geoArgs' = Append(geoArgs, geo)
            ELSE UNCHANGED <<geoCh, geoArgs>>
    /\ UNCHANGED <<geoRows, geoPc>>
    /\ GeoFrame

(* The rows of Insert up to the first whose qd.geo is nil: qd.geo.Country and
   qd.geo.RegionName are read through the pointer. *)
RECURSIVE AppendedUntilNil(_)
AppendedUntilNil(batch) ==
    IF batch = <<>> THEN <<>>
    ELSE IF Head(batch).isNil THEN <<>>
    ELSE <<[country |-> Head(batch).Country, region |-> Head(batch).RegionName]>>
           \o AppendedUntilNil(Tail(batch))

(* Insert(batchData) with the qdata received: batch.Append for every row; the
   read of a field through a nil qd.geo panics. *)
GeoInsert ==
    /\ geoPc = "collect"
    /\ geoCh # <<>>
    /\ geoRows' = AppendedUntilNil(geoCh)
    /\ geoPc' = IF Len(AppendedUntilNil(geoCh)) = Len(geoCh) THEN "done" ELSE "panic"
    /\ UNCHANGED <<geoArgs, geoCh>>
    /\ GeoFrame

GeoNext ==
    \/ \E geo \in GeoArgs : GeoAdd(geo)
    \/ GeoInsert

GeoSpec == Init /\ [][GeoNext]_vars

(***************************************************************************)
(* Properties                                                              *)
(***************************************************************************)

(* The places <<i, j>> of the rows handed to Insert: row j of the i-th call. *)
Places == UNION {{<<i, j>> : j \in 1..Len(batches[i].rows)} : i \in 1..Len(batches)}

RowAt(p) == batches[p[1]].rows[p[2]]

(* The places at which event r was handed to Insert. *)
PlacesOf(r) == {p \in Places : RowAt(p) = r}

(* The events whose Add returned nil. *)
Accepted == {r \in Requests : pc[r] = "nil"}

(* The calls of Insert that returned an error. *)
FailedCalls == {i \in 1..Len(batches) : batches[i].result = "failed"}

(* C1: once WaitFlush has returned after eventsCancel(), every event whose Add
   had returned nil before eventsCancel() has been handed to Insert at exactly
   one place: in one batch, and once in it. *)
C1_AcceptedBeforeShutdownInsertedOnce ==
    mainPc \in {"returned", "exited"} =>
        \A r \in beforeCancel : Cardinality(PlacesOf(r)) = 1

(* C1 witness: shutdown has returned, and an event accepted before the cancel was
   handed to Insert by the final flush after the drain. *)
C1_Witness ==
    /\ mainPc = "returned"
    /\ runPc = "returned"
    /\ \E r \in beforeCancel : \E p \in PlacesOf(r) : batches[p[1]].trigger = "final"

(* C2: an Add call made after eventsCancel() never returns nil and never panics:
   it blocks or fails with the context's error. *)
C2_AddAfterShutdownFails ==
    [][\A r \in Requests :
          (cancelled /\ pc[r] \in {"handler", "handlerCtxDone"})
              => pc'[r] \in {"handler", "handlerCtxDone", "select", "err"}]_vars

(* C3: no accepted event is left without having been handed to Insert, with the
   call returned (stored, or logged as failed): when the process has ended,
   every accepted event is in a batch whose Insert call has returned. *)
C3_AcceptedEventuallyInserted ==
    mainPc = "exited" =>
        \A r \in Accepted :
            \E p \in PlacesOf(r) : batches[p[1]].result \in {"ok", "failed"}

(* C4: while the worker is Running, a buffer of maxBatchSize events is flushed at
   once: the worker stands at the size-triggered flush and takes no further
   event, its next step hands exactly these maxBatchSize rows to Insert in one
   batch and empties the buffer, and every size-triggered batch has exactly
   maxBatchSize rows. *)
C4_SizeTriggerFlushesExactBatch ==
    /\ [](/\ ~chClosed => Len(q) <= maxBatchSize
          /\ (~chClosed /\ Len(q) = maxBatchSize) => (runPc = "flush" /\ trigger = "size")
          /\ (runPc = "flush" /\ trigger = "size") => Len(q) = maxBatchSize
          /\ \A i \in 1..Len(batches) :
                batches[i].trigger = "size" => Len(batches[i].rows) = maxBatchSize)
    /\ [][(runPc = "flush" /\ trigger = "size" /\ runPc' # runPc)
              => /\ runPc' = "insert"
                 /\ tmp' = q
                 /\ q' = <<>>
                 /\ Len(batches') = Len(batches) + 1]_vars

(* C4 witness: a batch of maxBatchSize rows was handed to Insert by the size
   trigger although the idle timer has never fired. *)
C4_Witness ==
    /\ ~everFired
    /\ \E i \in 1..Len(batches) :
          batches[i].trigger = "size" /\ Len(batches[i].rows) = maxBatchSize

(* C5: as long as fewer than maxBatchSize events were accepted, the idle timer
   has not fired and shutdown was not requested, Insert has not been called. *)
C5_NoFlushBelowThreshold ==
    (Cardinality(Accepted) < maxBatchSize /\ ~everFired /\ ~cancelled)
        => batches = <<>>

(* C5 witness: maxBatchSize - 1 accepted events sit in the worker's buffer, no
   timer fire, no shutdown. *)
C5_Witness ==
    /\ Cardinality(Accepted) = maxBatchSize - 1
    /\ Len(q) = maxBatchSize - 1
    /\ Len(q) > 0
    /\ ~everFired
    /\ ~cancelled
    /\ runPc = "select"

(* C6: a flush of an empty buffer calls nothing and leaves the buffer empty;
   Insert is never called with a batch of zero rows. *)
C6_EmptyFlushIsNoop ==
    /\ [](/\ \A i \in 1..Len(batches) : Len(batches[i].rows) > 0
          /\ runPc = "insert" => Len(tmp) > 0)
    /\ [][(runPc = "flush" /\ q = <<>>)
              => (batches' = batches /\ q' = <<>> /\ runPc' # "insert")]_vars

(* C6 witness: the timer branch is about to flush an empty buffer. *)
C6_Witness == runPc = "flush" /\ trigger = "timer" /\ q = <<>>

(* C7: a failed batch is not retried or requeued: the buffer is empty while
   Insert runs, no event is handed to Insert at two places, the events of a failed
   batch are neither in the channel nor in the buffer afterwards, and after a
   failed Insert of a size- or timer-triggered flush the worker is back at its
   select. *)
C7_FailedBatchNotRetried ==
    /\ [](/\ runPc = "insert" => q = <<>>
          /\ \A r \in Requests : Cardinality(PlacesOf(r)) <= 1
          /\ \A i \in FailedCalls :
                \A j \in 1..Len(batches[i].rows) :
                    /\ batches[i].rows[j] \notin Range(q)
                    /\ batches[i].rows[j] \notin Range(ch))
    /\ [][(/\ runPc = "insert"
           /\ runPc' # "insert"
           /\ trigger # "final"
           /\ batches'[Len(batches)].result = "failed")
              => (runPc' = "select" /\ q' = <<>>)]_vars

(* C7 witness: a call of Insert failed, and a later batch was handed to Insert. *)
C7_Witness == \E i \in FailedCalls : i < Len(batches)

(* C8: Add returns nil exactly for the events it placed in the input queue (they
   are in the channel, in the buffer or in a batch), the result of an Add call
   never changes once returned, and the events of a failed batch keep their nil. *)
C8_AddResultIndependentOfStorage ==
    /\ [](/\ \A r \in Requests :
                pc[r] = "nil" <=>
                    (r \in Range(ch) \/ r \in Range(q) \/ PlacesOf(r) # {})
          /\ \A i \in FailedCalls :
                \A j \in 1..Len(batches[i].rows) : pc[batches[i].rows[j]] = "nil")
    /\ [][\A r \in Requests :
              pc[r] \in {"nil", "err", "panic"} => pc'[r] = pc[r]]_vars

(* C8 witness: the batch of an accepted event failed, and the caller got nil. *)
C8_Witness ==
    \E i \in FailedCalls : \E j \in 1..Len(batches[i].rows) :
        pc[batches[i].rows[j]] = "nil"

(* C9: an Add call whose context is already done fails with the context's error
   (and enqueues nothing). *)
C9_AddWithDoneContextFails ==
    [][\A r \in Requests :
          pc[r] = "handlerCtxDone" => pc'[r] \in {"handlerCtxDone", "err"}]_vars

(* C10: WaitFlush does not return before Run has returned. *)
C10_WaitFlushBlocksUntilRunReturned ==
    mainPc \in {"returned", "exited"} => runPc = "returned"

(* The calls of Insert that have not returned. *)
InFlightCalls == {i \in 1..Len(batches) : batches[i].result = "inflight"}

(* C11: when Run returns, and from then on, the input queue is closed and empty,
   the buffer is empty and no call of Insert is in progress. *)
C11_RunReturnsAfterFullDrain ==
    runPc \in {"done", "returned"} =>
        /\ chClosed
        /\ ch = <<>>
        /\ q = <<>>
        /\ tmp = <<>>
        /\ InFlightCalls = {}

(* C11 witness: Run has returned, main still waits, and the final flush handed
   to Insert a batch of buffered and drained rows, whose call has returned. *)
C11_Witness ==
    /\ runPc = "returned"
    /\ mainPc = "wait"
    /\ batches # <<>>
    /\ batches[Len(batches)].trigger = "final"
    /\ batches[Len(batches)].result = "failed"
    /\ Len(batches[Len(batches)].rows) = maxBatchSize

(* C13 (as stated): the idle timer is reset only in connection with a flush: the
   arrival of an event that does not bring the buffer to maxBatchSize leaves the
   timer as it is, so a timer whose flushInterval has elapsed keeps its pending
   time trigger. *)
C13_ArrivalLeavesTimerAlone ==
    [][(Len(received') = Len(received) + 1 /\ runPc' = "select")
          => timer' = timer]_vars

(* C13 (amended): the idle timer is started again for a full flushInterval by
   every event Run receives from the open queue, whether or not the event brings
   the buffer to maxBatchSize, and after every timer-triggered flush; the pending
   trigger of an elapsed timer is either taken by the timer branch, which
   flushes, or thrown away by such an arrival. *)
C13_ArrivalRestartsTimer ==
    /\ [][(runPc = "select" /\ ~chClosed' /\ Len(received') = Len(received) + 1)
              => timer' = "active"]_vars
    /\ [][(trigger = "timer" /\ runPc \in {"flush", "insert"} /\ runPc' = "select")
              => timer' = "active"]_vars
    /\ [][(timer = "fired" /\ timer' # "fired")
              => \/ timer' = "idle" /\ runPc' = "flush" /\ trigger' = "timer"
                 \/ timer' = "active" /\ Len(received') = Len(received) + 1]_vars

(* C13 witness: the timer had fired with an empty buffer, and an event that
   arrived before the timer branch was taken restarted it: the event waits in
   the buffer, below maxBatchSize, and no flush has been asked for so far. *)
C13_Witness ==
    /\ everFired
    /\ timer = "active"
    /\ trigger = "none"
    /\ runPc = "select"
    /\ Len(q) = 1
    /\ Len(q) < maxBatchSize

(* The tokens of the GROUP BY clause of a query text. *)
GroupBy(text) ==
    LET g == CHOOSE i \in 1..Len(text) : text[i] = "GROUP BY"
        e == CHOOSE i \in (g + 1)..Len(text) :
                 /\ text[i] \in {"HAVING", "ORDER BY"}
                 /\ \A k \in (g + 1)..(i - 1) : text[k] \notin {"HAVING", "ORDER BY"}
    IN  SubSeq(text, g + 1, e - 1)

(* The column a query groups by, next to the date in daily mode. *)
GroupingColumn(text) == GroupBy(text)[Len(GroupBy(text))]

(* Daily mode groups by the date and the column, totals mode by the column. *)
Mode(text) ==
    IF GroupBy(text) = <<"occured_at", ",", GroupingColumn(text)>> THEN "daily"
    ELSE IF Len(GroupBy(text)) = 1 THEN "totals"
    ELSE "neither"

(* The dispatch table of the Metric Kinds, in the order of their declaration. *)
DispatchTable ==
    <<[column |-> "event", mode |-> "daily"],
      [column |-> "event", mode |-> "totals"],
      [column |-> "user_id", mode |-> "daily"],
      [column |-> "referrer_domain", mode |-> "totals"],
      [column |-> "referrer", mode |-> "totals"],
      [column |-> "browser_name", mode |-> "totals"],
      [column |-> "os_name", mode |-> "totals"],
      [column |-> "country", mode |-> "totals"]>>

(* C14: for each of the eight Metric Kinds, the query handed to the store groups
   by the column of the dispatch table, in the mode of the dispatch table. *)
C14_QueryMatchesDispatchTable ==
    \A c \in statsCalls :
        c.data.what \in QueryTypes =>
            /\ GroupingColumn(c.qry) = DispatchTable[c.data.what + 1].column
            /\ Mode(c.qry) = DispatchTable[c.data.what + 1].mode

(* C14 witness: a daily query (UniqueVisitors) and a totals query (ReferrerHost)
   were handed to the store. *)
C14_Witness ==
    /\ \E c \in statsCalls : c.data.what = QueryUniqueVisitors /\ Mode(c.qry) = "daily"
    /\ \E c \in statsCalls : c.data.what = QueryReferrerHost /\ Mode(c.qry) = "totals"

(* C15: a request whose What is none of the eight Metric Kinds is rejected before
   a query is built: no query is handed to the store for it, and no query handed
   to the store has an empty grouping column. *)
C15_UnknownKindRejected ==
    \A c \in statsCalls :
        /\ c.data.what \in QueryTypes
        /\ GroupingColumn(c.qry) # ""

(* C16: the query of a Referrer request compares referrer_domain with the
   placeholder to which GetStats binds the extra value of the request. *)
C16_ReferrerFilteredByExtra ==
    \A c \in statsCalls :
        c.data.what = QueryReferrer =>
            \E i \in 1..(Len(c.qry) - 2) :
                /\ c.qry[i] = "referrer_domain"
                /\ c.qry[i + 1] = "="
                /\ \E k \in 1..Len(Placeholders) :
                      Placeholders[k] = c.qry[i + 2] /\ QueryArgs[k] = "extra"

(* C17: two calls for the same Metric Kind hand the same query text to the store,
   whatever their siteID, start, end and extra, and each call hands these four
   values of its request to the store as the values bound to $1..$4. *)
C17_QueryTextDependsOnKindOnly ==
    /\ \A c1, c2 \in statsCalls : c1.data.what = c2.data.what => c1.qry = c2.qry
    /\ \A c \in statsCalls :
          /\ c.args[1] = c.data.siteID
          /\ c.args[2] = c.data.start
          /\ c.args[3] = c.data.end
          /\ c.args[4] = c.data.extra

(* C17 witness: two Referrer requests that differ in siteID, start, end and extra
   were handed to the store. *)
C17_Witness ==
    \E c1, c2 \in statsCalls :
        /\ c1.data.what = QueryReferrer
        /\ c2.data.what = QueryReferrer
        /\ c1.data.siteID # c2.data.siteID
        /\ c1.data.start # c2.data.start
        /\ c1.data.end # c2.data.end
        /\ c1.data.extra # c2.data.extra

(* year*10000 + month*100 + day *)
YYYYMMDD(t) == t.year * 10000 + t.month * 100 + t.day

(* C18: on every calendar date, the occured_at value that Insert hands to the
   store is year*10000 + month*100 + day of that date, and it fits in 32 bits:
   the conversion in TimeToInt never fails. *)
C18_TimeToIntIsYYYYMMDD ==
    /\ insPc # "fatal"
    /\ \A i \in 1..Len(appended) :
          appended[i].occuredAt = YYYYMMDD(appended[i].insertedAt)

(* C19: a row taken by Add on one day and inserted on a later day is stored with
   the date of the day on which Insert ran, not of the day of Add. *)
C19_StampedWithFlushDate ==
    \A i \in 1..Len(appended) :
        YYYYMMDD(appended[i].addedAt) # YYYYMMDD(appended[i].insertedAt)
            => appended[i].occuredAt = YYYYMMDD(appended[i].insertedAt)

(* The bodies that are malformed payloads: everything the client can send that
   is not a JSON object fitting Tracking. *)
Malformed(body) == body \in {"notJSON", "wrongType", "empty", "truncated"}

(* C20: the /track handler answers 200 exactly when Add enqueued the event
   (returned nil), 400 for every malformed payload, without calling Add, and 500
   when Add returned an error, whatever the IP and geo lookups yielded. *)
C20_TrackStatusCodes ==
    trackPc = "done" =>
        /\ trackStatus = http_StatusOK <=> trackAdd.result = "nil"
        /\ Malformed(trackReq.body) =>
               (trackStatus = http_StatusBadRequest /\ trackAdd.result = "notCalled")
        /\ trackAdd.result = "err" => trackStatus = http_StatusInternalServerError

(* The rows of the first n calls of Insert, in call order. *)
RECURSIVE RowsOfCalls(_)
RowsOfCalls(n) == IF n = 0 THEN <<>> ELSE RowsOfCalls(n - 1) \o batches[n].rows

(* C12: the rows handed to Insert, batch after batch in flush order and followed
   by the rows still in the buffer, are the events in the order in which Run
   received them from the queue. *)
C12_BatchesKeepReceiveOrder ==
    RowsOfCalls(Len(batches)) \o q = received

(* C12 witness: two batches were handed to Insert, the last one by the final
   flush with a row that was buffered before the drain and a row the drain took
   from the channel. *)
C12_Witness ==
    /\ Len(batches) >= 2
    /\ batches[Len(batches)].trigger = "final"
    /\ Len(batches[Len(batches)].rows) >= 2
    /\ runPc = "returned"

(* C21: the /stats handler answers 401 when the X-API-KEY header is not the
   configured key, and then decodes no body and hands no query to the store; with
   the right key it answers 400 when the body does not decode, without a query,
   and 500 when GetStats returned an error. *)
C21_StatsStatusCodes ==
    /\ statsReq.key # statsReq.apiKey =>
          /\ statsPc \in {"auth", "done"}
          /\ statsCalls = {}
          /\ statsPc = "done" => statsStatus = http_StatusUnauthorized
    /\ (statsReq.key = statsReq.apiKey /\ Decode(statsReq.body) # "nil") =>
          /\ statsPc # "query"
          /\ statsCalls = {}
          /\ statsPc = "done" => statsStatus = http_StatusBadRequest
    /\ (statsPc = "done" /\ statsResult.outcome \notin {"notCalled", "ok"}) =>
          statsStatus = http_StatusInternalServerError

(* C21 witness: the three answers, each on its own request: a wrong key with a
   good body, a right key with a truncated body, a right key whose query failed. *)
C21_Witness ==
    /\ statsPc = "done"
    /\ \/ statsReq.key = "guess" /\ statsReq.body = "valid" /\ statsStatus = http_StatusUnauthorized
       \/ statsReq.key = "secret" /\ statsReq.apiKey = "secret" /\ statsReq.body = "truncated"
             /\ statsStatus = http_StatusBadRequest
       \/ statsResult.outcome = "queryFails" /\ statsStatus = http_StatusInternalServerError

(* Everything that was ever put in the input queue e.ch, in order: what Run took
   out of it, then what it still holds. *)
Enqueued == received \o ch

(* The places of the input queue's history that hold the event of request r. *)
CopiesOf(r) == {i \in 1..Len(Enqueued) : Enqueued[i] = r}

(* C22: under every interleaving of Add calls, the event of a call that returned
   nil was put in the input queue exactly once, and the event of a call that
   returned an error, or has not returned, was never put there. *)
C22_AddEnqueuesOnceOrNever ==
    \A r \in Requests :
        /\ pc[r] = "nil" => Cardinality(CopiesOf(r)) = 1
        /\ pc[r] # "nil" => CopiesOf(r) = {}

(* C22 witness: of two calls that were in Add together, the later one returned nil
   with its event in the queue while the earlier one, blocked first, returned an
   error. *)
C22_Witness ==
    /\ pc[1] = "err"
    /\ pch[1] = "ch"
    /\ pc[2] = "nil"
    /\ Cardinality(CopiesOf(2)) = 1
    /\ CopiesOf(1) = {}

(* C23: Add suspends only while the input queue is full.  The queue never holds
   more than its capacity; a call with a live context blocks only when the queue
   is full; and a blocked call ends by returning nil, taken when the queue has
   room, or by returning the context's error. *)
C23_AddBlocksOnlyWhenFull ==
    /\ [](Len(ch) <= chanCap)
    /\ [][\A r \in Requests :
            /\ (pc[r] = "handler" /\ pc'[r] = "select") => Len(ch) >= chanCap
            /\ (pc[r] = "select" /\ pc'[r] # "select") =>
                  \/ pc'[r] = "nil" /\ Len(ch) < chanCap
                  \/ pc'[r] = "err"]_vars

(* C24: the buffer lock is never held during a storage call.  flushQueue copies
   and clears the buffer under the lock and has released it when Insert is called
   and when it returns, on the early return for an empty buffer too. *)
C24_LockFreeDuringInsert ==
    /\ [](lkPc = "insert" => mu = "unlocked")
    /\ [](lkPc \in {"select", "returned"} => mu = "unlocked")
    /\ [][lkTmp' # lkTmp /\ lkTmp' # <<>> => mu = "Run" /\ mu' = "Run" /\ lkQ' = <<>>]_vars
    /\ [][lkPc = "insert" => mu' = "unlocked"]_vars

(* C24 witness: a storage call is in progress with a batch of maxBatchSize events,
   the buffer is empty, the lock is free and a further event waits in e.ch. *)
C24_Witness ==
    /\ lkPc = "insert"
    /\ Len(lkTmp) = maxBatchSize
    /\ lkQ = <<>>
    /\ mu = "unlocked"
    /\ lkCh # <<>>

(* C28: producers communicate with the worker through the input queue only.  A
   step of Add leaves the buffer, the lock and the worker's locals as they are;
   and every step that changes the buffer, an append or the clear, is a step of
   the goroutine of Run taken while it holds the lock. *)
C28_BufferTouchedByWorkerUnderLock ==
    /\ [][lkSent' # lkSent =>
            /\ lkQ' = lkQ /\ mu' = mu /\ lkTmp' = lkTmp
            /\ lkData' = lkData /\ lkSize' = lkSize /\ lkPc' = lkPc]_vars
    /\ [][lkQ' # lkQ =>
            /\ mu = "Run" /\ mu' = "Run"
            /\ lkSent' = lkSent
            /\ lkPc \in {"recvAppend", "drainAppend", "flushCopy"}]_vars

(* C28 witness: the worker has appended an event to the buffer and still holds the
   lock, while a producer has put a later event in the input queue. *)
C28_Witness ==
    /\ lkPc = "recvUnlock"
    /\ mu = "Run"
    /\ lkQ # <<>>
    /\ lkCh # <<>>
    /\ lkSent > Len(lkQ)

(* C25: the idle timer is reset after every flush, size- or timer-triggered: when
   flushQueue returns to the loop of Run the timer has just been started for a
   full flushInterval, so no value waits in timer.C and a timer flush cannot
   follow before the interval has passed again. *)
C25_TimerRearmedAfterEveryFlush ==
    [][(runPc \in {"flush", "insert"} /\ runPc' = "select") => timer' = "active"]_vars

(* The phase of the worker: 0 before its loop, 1 Running (in the loop, flushes by
   size and by timer included), 2 Draining (the channel is closed and drained, the
   final flush is under way), 3 Stopped (Run is returning or has returned). *)
WorkerPhase ==
    CASE runPc \in {"notStarted", "spawned", "init"} -> 0
      [] runPc \in {"select", "drainTimer"} -> 1
      [] runPc \in {"flush", "insert"} /\ trigger # "final" -> 1
      [] runPc \in {"flush", "insert"} /\ trigger = "final" -> 2
      [] runPc \in {"done", "returned"} -> 3

(* The calls of Insert made by the final flush. *)
FinalCalls == {i \in 1..Len(batches) : batches[i].trigger = "final"}

(* C26: on shutdown the worker goes from Running to Draining to Stopped and never
   back.  Entering Draining it closes the queue and moves every queued event
   behind the buffered ones; in Draining it flushes once, the buffer as it is, with
   at most one call of Insert; then it stops. *)
C26_ShutdownPhasesOneWay ==
    /\ [](Cardinality(FinalCalls) <= 1)
    /\ [](WorkerPhase >= 2 => chClosed /\ ch = <<>>)
    /\ [][WorkerPhase' >= WorkerPhase /\ WorkerPhase' <= WorkerPhase + 1]_vars
    /\ [][(WorkerPhase = 1 /\ WorkerPhase' = 2) =>
            /\ cancelled
            /\ q' = q \o ch
            /\ batches' = batches]_vars
    /\ [][(WorkerPhase = 2 /\ runPc = "flush" /\ runPc' # "flush") =>
            IF q = <<>>
              THEN batches' = batches /\ runPc' = "done"
              ELSE /\ batches' = Append(batches,
                           [rows |-> q, trigger |-> "final", result |-> "inflight"])
                   /\ runPc' = "insert"]_vars
    /\ [][(WorkerPhase = 2 /\ runPc = "insert" /\ runPc' # "insert") => runPc' = "done"]_vars

(* C26 witness: the worker has stopped after flushes in its loop and one final
   flush, whose batch holds an event that was buffered followed by an event that
   was drained from the closed queue. *)
C26_Witness ==
    /\ WorkerPhase = 3
    /\ \E i \in FinalCalls :
          /\ i > 1
          /\ Len(batches[i].rows) = 2
          /\ batches[i].result = "ok"

(* C27: the cancellation of an Add caller's context aborts that enqueue attempt
   only.  The step in which the context of a request is cancelled, and the step
   in which its Add returns the context's error, leave the input queue, the
   buffer, the batch and the progress of the Insert call under way, and every
   other request as they are; the cancellation of the pipeline's context leaves
   the batch and the progress of the Insert call under way as they are. *)
C27_CancelAbortsOnlyThatAdd ==
    /\ [][\A r \in Requests :
            (pc'[r] # pc[r] /\ pc'[r] \in {"err", "handlerCtxDone"}) =>
                /\ ch' = ch /\ q' = q /\ tmp' = tmp
                /\ batches' = batches /\ runPc' = runPc
                /\ \A o \in Requests \ {r} : pc'[o] = pc[o]]_vars
    /\ [][cancelled' # cancelled =>
            /\ tmp' = tmp /\ batches' = batches /\ runPc' = runPc
            /\ ch' = ch /\ q' = q]_vars

(* C27 witness: an Add call that was blocked on the full queue has returned the
   error of its context while a call of Insert is under way with its batch and an
   accepted event waits in the queue. *)
C27_Witness ==
    /\ runPc = "insert"
    /\ tmp # <<>>
    /\ InFlightCalls # {}
    /\ ch # <<>>
    /\ \E r \in Requests : pc[r] = "err" /\ pch[r] = "ch" /\ r > Head(ch)

(* The rows of the table that the answer row m of the query for data may count:
   those of the site, of category 'Page views', with a day in [start, end], whose
   selected column has the value of m, and in daily mode whose day is that of m. *)
Countable(data, m) ==
    {row \in BagToSet(events) :
        /\ row.site_id = data.siteID
        /\ row.category = "Page views"
        /\ data.start <= row.occured_at /\ row.occured_at <= data.end
        /\ row.val = m[2]
        /\ Daily(data) => row.occured_at = m[1]}

(* C29: for every Metric Kind, in both modes, a row of the answer counts only the
   stored rows of the bound site, of category 'Page views', with a day in
   [start, end]; the answer is ordered by count, descending; in daily mode (and
   for every Kind but Referrer) nothing else decides, Extra least of all: the
   count is the number of those rows. *)
C29_QueryCountsFilteredRows ==
    sqlResult.status = "ok" =>
        /\ \A i \in 1..Len(sqlResult.rows) :
              /\ sqlResult.rows[i][3] > 0
              /\ sqlResult.rows[i][3] <= CountOf(events, Countable(sqlResult.data, sqlResult.rows[i]))
              /\ (Daily(sqlResult.data) \/ sqlResult.data.what # QueryReferrer) =>
                    sqlResult.rows[i][3] = CountOf(events, Countable(sqlResult.data, sqlResult.rows[i]))
        /\ \A i, j \in 1..Len(sqlResult.rows) :
              i < j => sqlResult.rows[i][3] >= sqlResult.rows[j][3]

(* C29 witness: a daily query with Extra set has answered one row that counts one
   of the two stored rows with its value, the other one lying outside the site,
   the category or the range. *)
C29_Witness ==
    /\ sqlResult.status = "ok"
    /\ Daily(sqlResult.data)
    /\ sqlResult.data.extra # ""
    /\ Len(sqlResult.rows) = 1
    /\ sqlResult.rows[1][3] = 1
    /\ sqlResult.rows[1][2] # sqlResult.data.extra
    /\ BagCardinality(events) = 2
    /\ \A row \in BagToSet(events) : row.val = sqlResult.rows[1][2]

(* The daily query with its date predicate moved from HAVING to WHERE: the rows
   are filtered by day before they are grouped. *)
DailyQueryFilteredFirst(field) ==
    <<"SELECT", "occured_at", ",", field, ",", "COUNT(*)", "FROM", "events",
      "WHERE", "site_id", "=", "$1", "AND", "category", "=", "'Page views'",
      "AND", "occured_at", "BETWEEN", "$2", "AND", "$3",
      "GROUP BY", "occured_at", ",", field,
      "ORDER BY", "3", "DESC", ";">>

(* The daily requests among those tried. *)
DailyRequests == {data \in SqlRequests : Daily(data) /\ Field(data) # ""}

(* C30: for the rows stored and every daily request, the daily query, which
   filters by day after grouping (HAVING on the grouped day), answers the same
   (day, value, count) rows as the query that filters by day before grouping:
   for every request that may come, and for the answer that was given. *)
C30_HavingEqualsFilterFirst ==
    /\ sqlResult.status = "none" =>
          \A data \in DailyRequests :
              AnswerRows(events, GenQuery(data), QueryCall(data).args)
                  = AnswerRows(events, DailyQueryFilteredFirst(Field(data)),
                               QueryCall(data).args)
    /\ (sqlResult.status = "ok" /\ Daily(sqlResult.data)) =>
          {sqlResult.rows[i] : i \in 1..Len(sqlResult.rows)}
              = AnswerRows(events, DailyQueryFilteredFirst(Field(sqlResult.data)),
                           QueryCall(sqlResult.data).args)

(* C30 witness: a daily query has answered a row for one day while a row of the
   same site, category and value is stored for a day outside [start, end]: its
   group was formed and then removed by HAVING. *)
C30_Witness ==
    /\ sqlResult.status = "ok"
    /\ Daily(sqlResult.data)
    /\ Len(sqlResult.rows) = 1
    /\ \E row \in BagToSet(events) :
          /\ row.site_id = sqlResult.data.siteID
          /\ row.category = "Page views"
          /\ row.val = sqlResult.rows[1][2]
          /\ row.occured_at > sqlResult.data.end

(* C31: missing enrichment is handled as valid empty values.  Every qdata in the
   queue has a geo that is not nil, the empty GeoInfo where Add was called with
   nil; Insert never dereferences nil, and the rows it appends carry the country
   and region of the argument, empty strings where the argument was nil. *)
C31_NilGeoStoredAsEmpty ==
    /\ Len(geoCh) = Len(geoArgs)
    /\ \A i \in 1..Len(geoCh) :
          /\ ~geoCh[i].isNil
          /\ geoArgs[i].isNil => geoCh[i] = EmptyGeoInfo
    /\ geoPc # "panic"
    /\ geoPc = "done" =>
          /\ Len(geoRows) = Len(geoArgs)
          /\ \A i \in 1..Len(geoRows) :
                IF geoArgs[i].isNil
                  THEN geoRows[i] = [country |-> "", region |-> ""]
                  ELSE geoRows[i] = [country |-> geoArgs[i].Country,
                                     region |-> geoArgs[i].RegionName]

(* C31 witness: Insert has appended two rows, the first for an Add with a nil geo,
   stored with empty country and region, the second with a country and a region. *)
C31_Witness ==
    /\ geoPc = "done"
    /\ Len(geoArgs) = 2
    /\ geoArgs[1].isNil
    /\ geoRows[1] = [country |-> "", region |-> ""]
    /\ geoRows[2] = [country |-> "Japan", region |-> "Kanto"]

(* C37: GetStats returns an error whenever the query, a Scan or the iteration
   failed, and nil only when every row was read.  After a failed query or Scan it
   returns no rows, whatever was scanned before; after a failed iteration it
   returns the rows scanned so far with the error; without a failure it returns
   the rows scanned. *)
C37_GetStatsErrorReturns ==
    statsResult.outcome # "notCalled" =>
        /\ statsResult.err = "nil" <=> statsResult.outcome = "ok"
        /\ statsResult.outcome \in {"queryFails", "scanFails"} => statsResult.rows = 0
        /\ statsResult.outcome \in {"iterFails", "ok"} =>
              statsResult.rows = statsResult.scanned

(* C37 witness: the iteration failed after rows had been scanned, and GetStats
   returned those rows with an error, which the handler answered with 500. *)
C37_Witness ==
    /\ statsResult.outcome = "iterFails"
    /\ statsResult.scanned = MaxMetrics
    /\ statsResult.rows = MaxMetrics
    /\ statsResult.err # "nil"
    /\ statsStatus = http_StatusInternalServerError

(* C33: while the worker is in its loop, between two iterations the buffer holds
   fewer than maxBatchSize events; every batch handed to Insert by a size or timer
   flush has from 1 to maxBatchSize rows; the batch of the final flush has at
   least 1 and at most maxBatchSize - 1 plus the capacity of the queue. *)
C33_BatchSizesBounded ==
    /\ runPc = "select" => Len(q) < maxBatchSize
    /\ \A i \in 1..Len(batches) :
          /\ Len(batches[i].rows) >= 1
          /\ batches[i].trigger # "final" => Len(batches[i].rows) <= maxBatchSize
          /\ batches[i].trigger = "size" => Len(batches[i].rows) = maxBatchSize
          /\ batches[i].trigger = "final" =>
                Len(batches[i].rows) <= maxBatchSize - 1 + chanCap

(* C33 witness: after a flush in the loop, the final flush handed to Insert the
   largest batch it can have: a buffer one short of maxBatchSize and a full
   queue. *)
C33_Witness ==
    \E i, j \in 1..Len(batches) :
        /\ i < j
        /\ batches[i].trigger = "timer"
        /\ batches[j].trigger = "final"
        /\ Len(batches[j].rows) = maxBatchSize - 1 + chanCap

(* C34: an Add call in progress when the worker closes the input queue never
   sends on the closed queue.  No call ends in the panic of such a send; a call
   that ends after the close returns the error of its context; and what was
   enqueued before the close is moved behind the buffer for the final flush. *)
C34_NoSendOnClosedQueue ==
    /\ [](\A r \in Requests : pc[r] # "panic")
    /\ [][\A r \in Requests :
            (chClosed /\ pc[r] \in {"handler", "handlerCtxDone", "select"}
                /\ pc'[r] \notin {"handler", "handlerCtxDone", "select"})
              => pc'[r] = "err"]_vars
    /\ [][(~chClosed /\ chClosed') => (q' = q \o ch /\ ch' = <<>>)]_vars

(* C35: an Add call that starts before Run has created the input queue is not
   stranded.  Once the queue exists, every call blocked in Add waits on that
   queue, so that it returns nil when the queue has room; and a blocked call
   that returns, its context not done, returns nil with its event in the queue. *)
C35_EarlyAddNotStranded ==
    /\ [](\A r \in Requests : (pc[r] = "select" /\ chMade) => pch[r] = "ch")
    /\ [][\A r \in Requests :
            (pc[r] = "select" /\ pc'[r] \notin {"select", "err", "panic"})
              => (pc'[r] = "nil" /\ ch' = Append(ch, r))]_vars

(* C36: in the branch of an arriving event the worker never blocks on the stop
   and drain of the idle timer.  Whenever Run is at its select the timer runs or
   has a fired value waiting in timer.C, never a value already received without a
   Reset after it, so that Stop reports false only with a value to drain. *)
C36_TimerDrainNeverBlocks ==
    /\ runPc # "drainTimer"
    /\ runPc = "select" => timer \in {"active", "fired"}
    /\ runPc = "select" => ~DrainBlocks(timer)

(* C36 witness: the timer has fired, its value was received and the timer flush
   was followed by Reset; it has fired again, and Run is at its select with an
   event in the queue: the next arrival finds Stop reporting false with a value
   to drain. *)
C36_Witness ==
    /\ runPc = "select"
    /\ timer = "fired"
    /\ FALSE \in StopReports(timer)
    /\ ch # <<>>
    /\ \E i \in 1..Len(batches) : batches[i].trigger = "timer"

(* C32: shutdown terminates.  Once the context of Run is cancelled, and with
   every storage call returning (log.Fatal inside Insert ends the process
   instead), Run takes its shutdown branch and returns, whatever arrives and
   however often the timer fires; and main, blocked in WaitFlush, is released. *)
C32_ShutdownTerminates ==
    /\ cancelled ~> (runPc = "returned" \/ mainPc = "fatal")
    /\ (mainPc = "wait") ~> (mainPc \in {"returned", "exited", "fatal"})

====
